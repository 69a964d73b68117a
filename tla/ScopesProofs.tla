---------------------------- MODULE ScopesProofs ----------------------------
(***************************************************************************)
(* Proofs about Scopes, for any tasks, any nesting and any order of ends.  *)
(*                                                                         *)
(* A lease is revoked through the value its owner's ContextVar holds when  *)
(* the owner ends. The inductive invariant therefore says where that value *)
(* leads: unless an owner was bound on top of a dead one (Severed), every  *)
(* owner that has not ended is reached from the variable of the task that  *)
(* bound it (Reached, OperationsReached). The links never leave their      *)
(* generation, and every generation is new, except that a fork restarts    *)
(* the revisions of operations: the operations begun since the last fork   *)
(* are those after some number, and only they are reached (OperationsKept).*)
(***************************************************************************)
EXTENDS Scopes, FiniteSums

Triggers ==
    {<<>>} \cup {r.header[1].payload : r \in Requests} \cup {r.query[1].payload : r \in Requests}

Leases ==
    [kind : Kinds, generation : Nat, active : BOOLEAN, operation : Nat, chain : Seq(Nat),
     directives : Triggers, old : Nat, home : Tasks]

Operations == [revision : Nat, chain : Seq(Nat), active : BOOLEAN, old : Nat, home : Tasks]

Members(store, n) == ToSet(Chain(store, n))

Typed ==
    /\ generation \in 1 .. MaxGeneration /\ revision \in Nat
    /\ leases \in Seq(Leases) /\ operations \in Seq(Operations)
    /\ current \in [Kinds -> [Tasks -> Nat]] /\ operation \in [Tasks -> Nat]
    /\ live \subseteq Tasks /\ ended \subseteq 1 .. Len(leases) /\ left \subseteq 1 .. Len(operations)
    /\ probe_buffers \subseteq Labels /\ now \in 0 .. MaxTime
    /\ DOMAIN probe = Tasks /\ \A t \in Tasks : probe[t].pc = "prepared" => probe[t].label \in Labels

(* A chain starts at its lease or operation and goes on, unless it is      *)
(* alone, with the chain of the value it was bound on top of.              *)
Linked(store, n) ==
    /\ store[n].old < n /\ store[n].chain # <<>> /\ store[n].chain[1] = n
    /\ Members(store, n) \subseteq 1 .. n
    /\ Len(store[n].chain) # 1 =>
          store[n].old # 0 /\ Members(store, n) = {n} \cup Members(store, store[n].old)

LeasesLinked ==
    /\ \A l \in 1 .. Len(leases) :
          /\ Linked(leases, l) /\ Len(leases[l].chain) <= Depth
          /\ leases[l].operation <= Len(operations)
          /\ leases[l].old # 0 => leases[leases[l].old].kind = leases[l].kind
    /\ \A k \in Kinds, t \in Tasks :
          /\ current[k][t] <= Len(leases)
          /\ current[k][t] # 0 => leases[current[k][t]].kind = k

OperationsLinked ==
    /\ \A o \in 1 .. Len(operations) : Linked(operations, o) /\ Len(operations[o].chain) < Depth
    /\ \A t \in Tasks : operation[t] <= Len(operations)

(* Generations only grow, links stay within one, and the owners of this    *)
(* one are tasks that run.                                                 *)
LeaseEras ==
    /\ \A l \in 1 .. Len(leases) :
          /\ leases[l].generation <= generation
          /\ leases[l].generation = generation => leases[l].home \in live
          /\ \A m \in Members(leases, l) : leases[m].generation = leases[l].generation
    /\ \A l, m \in 1 .. Len(leases) : l <= m => leases[l].generation <= leases[m].generation

(* A task whose variable holds the lease of another never bound one of     *)
(* those that lease is nested in.                                          *)
Foreign(v, t) == leases[v].home # t => \A m \in Members(leases, v) : leases[m].home # t

Copied ==
    /\ \A l \in 1 .. Len(leases) :
          leases[l].old # 0 /\ leases[leases[l].old].generation = leases[l].generation =>
             Foreign(leases[l].old, leases[l].home)
    /\ \A k \in Kinds, t \in Tasks :
          current[k][t] # 0 /\ leases[current[k][t]].generation = generation => Foreign(current[k][t], t)

Reached ==
    /\ \A l \in 1 .. Len(leases) : ~leases[l].active => l \in ended
    /\ ~Severed => \A l \in 1 .. Len(leases) :
          leases[l].generation = generation =>
             IF l \in ended THEN ~leases[l].active
             ELSE l \in Members(leases, current[leases[l].kind][leases[l].home])

OperationsReached(b) ==
    /\ \A t \in Tasks : operation[t] = 0 \/ operation[t] > b
    /\ \A o \in 1 .. Len(operations) : o > b =>
          /\ operations[o].revision <= revision
          /\ operations[o].revision = revision => operations[o].home \in live
          /\ operations[o].old = 0 \/ operations[o].old > b
          /\ \A m \in Members(operations, o) :
                m > b /\ operations[m].revision = operations[o].revision
          /\ ~Severed /\ operations[o].revision = revision =>
                IF o \in left THEN ~operations[o].active
                ELSE o \in Members(operations, operation[operations[o].home])

(* The operation of a request belongs to its task, and to the past when    *)
(* the request does.                                                       *)
RequestOperations(b) ==
    \A l \in 1 .. Len(leases) : leases[l].operation > b =>
        /\ operations[leases[l].operation].home = leases[l].home
        /\ leases[l].generation < generation =>
              operations[leases[l].operation].revision < revision

OperationsKept ==
    \E b \in 0 .. Len(operations) : OperationsReached(b) /\ RequestOperations(b)

Buffered == IsFiniteSet(probe_buffers) /\ Cardinality(probe_buffers) <= MaxLabels

IInv ==
    /\ Typed /\ LeasesLinked /\ OperationsLinked /\ LeaseEras /\ Copied /\ Reached
    /\ OperationsKept /\ Buffered

-----------------------------------------------------------------------------
(* A chain with one number more in front: bind and begin.                  *)
LEMMA ChainGrown ==
    ASSUME NEW S, NEW s \in Seq(S), NEW n \in S
    PROVE  /\ <<n>> \o s \in Seq(S) /\ Len(<<n>> \o s) = Len(s) + 1 /\ (<<n>> \o s)[1] = n
           /\ <<n>> \o s # <<>> /\ ToSet(<<n>> \o s) = {n} \cup ToSet(s)
<1>. DEFINE c == <<n>> \o s
<1>1. c \in Seq(S) /\ Len(c) = Len(s) + 1 /\ c[1] = n /\ c # <<>>
  OBVIOUS
<1>2. \A i \in 1 .. Len(s) : c[i + 1] = s[i]
  OBVIOUS
<1>3. DOMAIN c = 1 .. Len(s) + 1 /\ DOMAIN s = 1 .. Len(s) /\ Len(s) \in Nat
  BY <1>1
<1>4. ToSet(c) \subseteq {n} \cup ToSet(s)
  <2>. SUFFICES ASSUME NEW i \in 1 .. Len(s) + 1 PROVE c[i] \in {n} \cup ToSet(s)
    BY <1>3 DEF ToSet
  <2>1. CASE i = 1
    BY <2>1, <1>1
  <2>2. CASE i # 1
    <3>1. i - 1 \in 1 .. Len(s) /\ c[i] = s[i - 1]
      BY <2>2, <1>2, <1>3
    <3>. QED BY <3>1, <1>3 DEF ToSet
  <2>. QED BY <2>1, <2>2
<1>5. {n} \cup ToSet(s) \subseteq ToSet(c)
  <2>1. \A i \in 1 .. Len(s) : i + 1 \in DOMAIN c
    BY <1>3
  <2>2. 1 \in DOMAIN c
    BY <1>3
  <2>3. n \in ToSet(c)
    BY <2>2, <1>1, Zenon DEF ToSet
  <2>4. ASSUME NEW i \in 1 .. Len(s) PROVE s[i] \in ToSet(c)
    BY <2>1, <1>2 DEF ToSet
  <2>. QED BY <2>3, <2>4, <1>3 DEF ToSet
<1>6. ToSet(c) = {n} \cup ToSet(s)
  BY <1>4, <1>5
<1>. QED BY <1>1, <1>6, Zenon

(* The loops of release and end see a whole chain within the limit.        *)
LEMMA FollowedAll ==
    ASSUME NEW chain \in Seq(Nat), Len(chain) <= Depth
    PROVE  Followed(chain) = ToSet(chain)
<1>1. DOMAIN chain = 1 .. Len(chain) /\ Len(chain) \in Nat /\ Depth \in Nat
  BY ScopesAssumption
<1>. DEFINE n == Len(chain)
<1>2. (IF n < Depth THEN n ELSE Depth) = n
  <2>1. n \in Nat /\ n <= Depth
    BY <1>1
  <2>. HIDE DEF n
  <2>. QED BY <2>1, <1>1
<1>. QED BY <1>1, <1>2 DEF Followed, ToSet

(* What another element at the end of a store leaves as it was.            *)
LEMMA Appended ==
    ASSUME NEW S, NEW s \in Seq(S), NEW e \in S, NEW s2, s2 = Append(s, e)
    PROVE  /\ s2 \in Seq(S) /\ Len(s2) = Len(s) + 1 /\ s2[Len(s) + 1] = e
           /\ \A i \in 1 .. Len(s) : s2[i] = s[i]
OBVIOUS

(* What replacing an element leaves as it was.                             *)
LEMMA Replaced ==
    ASSUME NEW S, NEW s \in Seq(S), NEW n \in 1 .. Len(s), NEW e \in S, NEW s2,
           s2 = [s EXCEPT ![n] = e]
    PROVE  /\ s2 \in Seq(S) /\ Len(s2) = Len(s) /\ s2[n] = e
           /\ \A i \in 1 .. Len(s) : i # n => s2[i] = s[i]
OBVIOUS

Deactivated(s, n, s2) == s2 = [s EXCEPT ![n].active = FALSE]

(* Revoking a lease or ending an operation changes nothing but its flag.   *)
SameLeases(s, s2) ==
    /\ s2 \in Seq(Leases) /\ Len(s2) = Len(s)
    /\ \A i \in 1 .. Len(s) :
          /\ s2[i].kind = s[i].kind /\ s2[i].generation = s[i].generation
          /\ s2[i].operation = s[i].operation /\ s2[i].chain = s[i].chain
          /\ s2[i].old = s[i].old /\ s2[i].home = s[i].home

(* Revoking a lease (_revoke) changes its active flag and no other.        *)
LEMMA LeaseRevoked ==
    ASSUME NEW s \in Seq(Leases), NEW l \in 1 .. Len(s), NEW s2,
           Deactivated(s, l, s2)
    PROVE  /\ SameLeases(s, s2) /\ ~s2[l].active
           /\ \A i \in 1 .. Len(s) : i # l => s2[i].active = s[i].active
<1>1. \A i \in 1 .. Len(s) : s[i] \in Leases
  OBVIOUS
<1>. DEFINE e == [s[l] EXCEPT !.active = FALSE]
<1>a. e \in Leases /\ s2 = [s EXCEPT ![l] = e]
  BY <1>1 DEF Leases, Deactivated
<1>. HIDE DEF e
<1>2. s2 \in Seq(Leases) /\ Len(s2) = Len(s)
  BY <1>a, Replaced
<1>3. \A i \in 1 .. Len(s) : i # l => s2[i] = s[i]
  BY <1>a
<1>b. l \in DOMAIN s
  OBVIOUS
<1>4. s2[l] = e
  BY <1>a, <1>b, Zenon
<1>5. ~s2[l].active /\ s2[l].kind = s[l].kind /\ s2[l].generation = s[l].generation
      /\ s2[l].operation = s[l].operation /\ s2[l].chain = s[l].chain
      /\ s2[l].old = s[l].old /\ s2[l].home = s[l].home
  BY <1>1, <1>4 DEF Leases, e
<1>. QED BY <1>2, <1>3, <1>5 DEF SameLeases

SameOperations(s, s2) ==
    /\ s2 \in Seq(Operations) /\ Len(s2) = Len(s)
    /\ \A i \in 1 .. Len(s) :
          /\ s2[i].revision = s[i].revision /\ s2[i].chain = s[i].chain
          /\ s2[i].old = s[i].old /\ s2[i].home = s[i].home

(* Ending an operation (end) changes its active flag and no other.         *)
LEMMA OperationEnded ==
    ASSUME NEW s \in Seq(Operations), NEW o \in 1 .. Len(s), NEW s2,
           Deactivated(s, o, s2)
    PROVE  /\ SameOperations(s, s2) /\ ~s2[o].active
           /\ \A i \in 1 .. Len(s) : i # o => s2[i].active = s[i].active
<1>1. \A i \in 1 .. Len(s) : s[i] \in Operations
  OBVIOUS
<1>. DEFINE e == [s[o] EXCEPT !.active = FALSE]
<1>a. e \in Operations /\ s2 = [s EXCEPT ![o] = e]
  BY <1>1 DEF Operations, Deactivated
<1>. HIDE DEF e
<1>2. s2 \in Seq(Operations) /\ Len(s2) = Len(s)
  BY <1>a, Replaced
<1>3. \A i \in 1 .. Len(s) : i # o => s2[i] = s[i]
  BY <1>a
<1>b. o \in DOMAIN s
  OBVIOUS
<1>4. s2[o] = e
  BY <1>a, <1>b, Zenon
<1>5. ~s2[o].active /\ s2[o].revision = s[o].revision /\ s2[o].chain = s[o].chain
      /\ s2[o].old = s[o].old /\ s2[o].home = s[o].home
  BY <1>1, <1>4 DEF Operations, e
<1>. QED BY <1>2, <1>3, <1>5 DEF SameOperations

-----------------------------------------------------------------------------
(* No step changes where an owner was bound: what is severed stays so.     *)
Kept ==
    /\ Len(leases) <= Len(leases') /\ Len(operations) <= Len(operations')
    /\ leases' \in Seq(Leases) /\ operations' \in Seq(Operations)
    /\ \A l \in 1 .. Len(leases) :
          /\ leases'[l].generation = leases[l].generation /\ leases'[l].chain = leases[l].chain
          /\ leases'[l].old = leases[l].old
    /\ \A o \in 1 .. Len(operations) :
          /\ operations'[o].revision = operations[o].revision
          /\ operations'[o].chain = operations[o].chain /\ operations'[o].old = operations[o].old

(* An owner bound on top of a dead one stays so: no step rewrites a link.  *)
LEMMA SeveredStays ==
    ASSUME Typed, LeasesLinked, OperationsLinked, Kept
    PROVE  Severed => Severed'
<1>1. /\ DOMAIN leases = 1 .. Len(leases) /\ DOMAIN leases' = 1 .. Len(leases')
      /\ DOMAIN operations = 1 .. Len(operations) /\ DOMAIN operations' = 1 .. Len(operations')
      /\ Len(leases) \in Nat /\ Len(leases') \in Nat
      /\ Len(operations) \in Nat /\ Len(operations') \in Nat
  BY DEF Typed, Kept
<1>2. ASSUME NEW l \in 1 .. Len(leases), leases[l].old # 0, Len(leases[l].chain) = 1,
             leases[leases[l].old].generation = leases[l].generation
      PROVE  Severed'
  <2>1. leases[l].old \in Nat /\ leases[l].old < l
    <3>1. leases[l] \in Leases
      BY <1>2 DEF Typed
    <3>. QED BY <1>2, <3>1 DEF Leases, LeasesLinked, Linked
  <2>2. leases[l].old \in 1 .. Len(leases) /\ l \in DOMAIN leases'
    BY <1>1, <1>2, <2>1 DEF Kept
  <2>3. /\ leases'[l].old # 0 /\ Len(leases'[l].chain) = 1
        /\ leases'[leases'[l].old].generation = leases'[l].generation
    BY <1>2, <2>2 DEF Kept
  <2>. QED BY <2>2, <2>3 DEF Severed
<1>3. ASSUME NEW o \in 1 .. Len(operations), operations[o].old # 0, Len(operations[o].chain) = 1,
             operations[operations[o].old].revision = operations[o].revision
      PROVE  Severed'
  <2>1. operations[o].old \in Nat /\ operations[o].old < o
    <3>1. operations[o] \in Operations
      BY <1>3 DEF Typed
    <3>. QED BY <1>3, <3>1 DEF Operations, OperationsLinked, Linked
  <2>2. operations[o].old \in 1 .. Len(operations) /\ o \in DOMAIN operations'
    BY <1>1, <1>3, <2>1 DEF Kept
  <2>3. /\ operations'[o].old # 0 /\ Len(operations'[o].chain) = 1
        /\ operations'[operations'[o].old].revision = operations'[o].revision
    BY <1>3, <2>2 DEF Kept
  <2>. QED BY <2>2, <2>3 DEF Severed
<1>. QED BY <1>1, <1>2, <1>3 DEF Severed

(* The links of a store whose chains did not change.                       *)
LEMMA LinkedKept ==
    ASSUME NEW s, NEW s2, NEW n, s2[n].old = s[n].old, s2[n].chain = s[n].chain,
           s[n].old # 0 => s2[s[n].old].chain = s[s[n].old].chain, Linked(s, n)
    PROVE  Linked(s2, n)
BY DEF Linked, Members, Chain

(* Every chain has its own number, and otherwise older ones.               *)
LEMMA OwnMember ==
    ASSUME NEW s, NEW n \in Nat \ {0}, Linked(s, n), s[n].chain \in Seq(Nat)
    PROVE  n \in Members(s, n) /\ Members(s, n) \subseteq 1 .. n
<1>1. 1 \in DOMAIN s[n].chain
  BY DEF Linked
<1>. QED BY <1>1, Zenon DEF Linked, Members, Chain, ToSet

(* The fields of a lease and of an operation.                              *)
LEMMA LeaseFields ==
    ASSUME NEW s \in Seq(Leases), NEW l \in 1 .. Len(s)
    PROVE  /\ s[l].kind \in Kinds /\ s[l].generation \in Nat /\ s[l].active \in BOOLEAN
           /\ s[l].operation \in Nat /\ s[l].chain \in Seq(Nat) /\ s[l].old \in Nat
           /\ s[l].home \in Tasks /\ s[l].directives \in Triggers
<1>1. s[l] \in Leases
  OBVIOUS
<1>. QED BY <1>1 DEF Leases

(* The types of an operation's fields.                                     *)
LEMMA OperationFields ==
    ASSUME NEW s \in Seq(Operations), NEW o \in 1 .. Len(s)
    PROVE  /\ s[o].revision \in Nat /\ s[o].active \in BOOLEAN /\ s[o].chain \in Seq(Nat)
           /\ s[o].old \in Nat /\ s[o].home \in Tasks
<1>1. s[o] \in Operations
  OBVIOUS
<1>. QED BY <1>1 DEF Operations

-----------------------------------------------------------------------------
(* Owners. The parts of the invariant that speak of leases.                *)
LeasesKept == LeasesLinked /\ LeaseEras /\ Copied /\ Reached

(* What bind appends: nested in the owner the task reads, or alone.        *)
Fresh(t, kind, o, n) ==
    /\ leases' \in Seq(Leases) /\ Len(leases') = n
    /\ \A l \in 1 .. Len(leases) : leases'[l] = leases[l]
    /\ leases'[n].kind = kind /\ leases'[n].generation = generation /\ leases'[n].active
    /\ leases'[n].operation = o /\ leases'[n].old = current[kind][t] /\ leases'[n].home = t
    /\ leases'[n].chain \in Seq(Nat) /\ leases'[n].chain # <<>> /\ leases'[n].chain[1] = n
    /\ Len(leases'[n].chain) <= Depth
    /\ IF alive(current[kind][t])
       THEN ToSet(leases'[n].chain) = {n} \cup Members(leases, current[kind][t])
       ELSE ToSet(leases'[n].chain) = {n} /\ Len(leases'[n].chain) = 1

(* bind appends one lease and stores it in the variable of its task.       *)
LEMMA BindAppends ==
    ASSUME Typed, LeasesLinked, NEW t \in Tasks, NEW kind \in Kinds, NEW o \in Nat,
           NEW triggers \in Triggers, Bind(t, kind, o, triggers)
    PROVE  Fresh(t, kind, o, Len(leases) + 1)
<1>. DEFINE n == Len(leases) + 1
            parent == current[kind][t]
            tail == IF alive(parent) THEN leases[parent].chain ELSE <<>>
            c == <<n>> \o tail
            e == [kind |-> kind, generation |-> generation, active |-> TRUE, operation |-> o,
                  chain |-> c, directives |-> triggers, old |-> parent, home |-> t]
<1>1. /\ leases \in Seq(Leases) /\ Len(leases) \in Nat /\ n \in Nat /\ generation \in Nat
      /\ parent \in Nat /\ parent <= Len(leases)
  BY DEF Typed, LeasesLinked
<1>2. alive(parent) => /\ parent \in 1 .. Len(leases) /\ leases[parent].chain \in Seq(Nat)
                       /\ Len(leases[parent].chain) < Depth
  <2>. SUFFICES ASSUME alive(parent)
                PROVE  /\ parent \in 1 .. Len(leases) /\ leases[parent].chain \in Seq(Nat)
                       /\ Len(leases[parent].chain) < Depth
    OBVIOUS
  <2>1. parent # 0 /\ Len(leases[parent].chain) < Depth
    BY DEF alive
  <2>2. parent \in 1 .. Len(leases)
    BY <1>1, <2>1
  <2>. HIDE DEF parent
  <2>. QED BY <1>1, <2>1, <2>2, LeaseFields
<1>3. tail \in Seq(Nat)
  BY <1>2
<1>4. Len(tail) + 1 <= Depth /\ Len(tail) \in Nat
  <2>1. Depth \in Nat /\ Depth >= 1
    BY ScopesAssumption
  <2>2. CASE alive(parent)
    <3>1. Len(leases[parent].chain) \in Nat
      BY <1>2, <2>2
    <3>. DEFINE m == Len(leases[parent].chain)
    <3>2. m \in Nat /\ m < Depth /\ Len(tail) = m
      BY <1>2, <2>2, <3>1
    <3>. HIDE DEF m, tail
    <3>. QED BY <3>2, <2>1
  <2>3. CASE ~alive(parent)
    <3>1. Len(tail) = 0
      BY <2>3
    <3>. HIDE DEF tail
    <3>. QED BY <3>1, <2>1
  <2>. QED BY <2>2, <2>3
<1>5. /\ <<n>> \o tail \in Seq(Nat) /\ Len(<<n>> \o tail) = Len(tail) + 1
      /\ (<<n>> \o tail)[1] = n /\ <<n>> \o tail # <<>>
      /\ ToSet(<<n>> \o tail) = {n} \cup ToSet(tail)
  <2>. HIDE DEF tail, n
  <2>. QED BY <1>1, <1>3, ChainGrown
<1>6. e \in Leases
  <2>1. c \in Seq(Nat)
    BY <1>5
  <2>. HIDE DEF c, parent
  <2>. QED BY <1>1, <2>1 DEF Leases
<1>7. leases' = Append(leases, e)
  BY DEF Bind
<1>8. /\ leases' \in Seq(Leases) /\ Len(leases') = n /\ leases'[n] = e
      /\ \A i \in 1 .. Len(leases) : leases'[i] = leases[i]
  <2>. HIDE DEF e
  <2>. QED BY <1>1, <1>6, <1>7, Appended
<1>9. /\ leases'[n].kind = kind /\ leases'[n].generation = generation /\ leases'[n].active
      /\ leases'[n].operation = o /\ leases'[n].old = current[kind][t] /\ leases'[n].home = t
      /\ leases'[n].chain = <<n>> \o tail
  BY <1>8
<1>10. IF alive(parent)
       THEN ToSet(<<n>> \o tail) = {n} \cup Members(leases, parent)
       ELSE ToSet(<<n>> \o tail) = {n} /\ Len(<<n>> \o tail) = 1
  <2>1. CASE alive(parent)
    <3>1. parent # 0 /\ ToSet(tail) = Members(leases, parent)
      BY <1>1, <1>2, <2>1 DEF Members, Chain
    <3>. HIDE DEF tail, parent, n
    <3>. QED BY <1>5, <2>1, <3>1
  <2>2. CASE ~alive(parent)
    <3>1. ToSet(tail) = {} /\ Len(tail) = 0
      BY <2>2 DEF ToSet
    <3>. HIDE DEF tail, parent, n
    <3>. QED BY <1>5, <2>2, <3>1
  <2>. QED BY <2>1, <2>2
<1>. HIDE DEF e, tail
<1>. QED BY <1>4, <1>5, <1>8, <1>9, <1>10 DEF Fresh

(* A new owner: bind_context and begin_request.                            *)
LEMMA BindKeeps ==
    ASSUME Typed, LeasesKept, NEW t \in live, NEW kind \in Kinds, NEW o \in Nat,
           NEW n, n = Len(leases) + 1, Fresh(t, kind, o, n),
           current' = [current EXCEPT ![kind][t] = n],
           Len(operations) <= Len(operations'), Len(operations') \in Nat, o <= Len(operations'),
           UNCHANGED <<generation, live, ended>>, Severed => Severed'
    PROVE  LeasesKept' /\ current' \in [Kinds -> [Tasks -> Nat]] /\ ended' \subseteq 1 .. Len(leases')
<1>. DEFINE p == current[kind][t]
<1>0. /\ leases \in Seq(Leases) /\ Len(leases) \in Nat /\ n \in Nat /\ generation \in Nat
      /\ t \in Tasks /\ DOMAIN leases = 1 .. Len(leases) /\ Len(operations) \in Nat
      /\ current \in [Kinds -> [Tasks -> Nat]] /\ p \in Nat /\ ended \subseteq 1 .. Len(leases)
  BY DEF Typed
<1>1. /\ leases' \in Seq(Leases) /\ Len(leases') = n /\ DOMAIN leases' = 1 .. n
      /\ \A l \in 1 .. Len(leases) : leases'[l] = leases[l]
  BY <1>0 DEF Fresh
<1>2. /\ current' \in [Kinds -> [Tasks -> Nat]] /\ current'[kind][t] = n
      /\ \A k \in Kinds, u \in Tasks : k # kind \/ u # t => current'[k][u] = current[k][u]
  BY <1>0
<1>3. /\ LeasesLinked /\ LeaseEras /\ Copied /\ Reached
      /\ \A k \in Kinds, u \in Tasks : current[k][u] \in 0 .. Len(leases)
  BY <1>0 DEF LeasesKept, LeasesLinked
<1>4. \A v \in 0 .. Len(leases) : Members(leases', v) = Members(leases, v)
  BY <1>0, <1>1 DEF Members, Chain
<1>5. Members(leases', n) = ToSet(leases'[n].chain)
  BY <1>0 DEF Members, Chain
<1>6. \A l \in 1 .. Len(leases) : Members(leases, l) \subseteq 1 .. l /\ l \in Members(leases, l)
  <2>. SUFFICES ASSUME NEW l \in 1 .. Len(leases)
                PROVE  Members(leases, l) \subseteq 1 .. l /\ l \in Members(leases, l)
    OBVIOUS
  <2>1. Linked(leases, l)
    BY <1>3 DEF LeasesLinked
  <2>2. leases[l].chain \in Seq(Nat) /\ l \in Nat \ {0}
    BY <1>0, LeaseFields
  <2>. QED BY <2>1, <2>2, OwnMember
<1>7. p \in 0 .. Len(leases) /\ p < n
  BY <1>0, <1>3
<1>8. alive(p) => /\ p # 0 /\ leases[p].generation = generation
                  /\ \A m \in Members(leases, p) : leases[m].generation = generation
  <2>. SUFFICES ASSUME alive(p)
                PROVE  /\ p # 0 /\ leases[p].generation = generation
                       /\ \A m \in Members(leases, p) : leases[m].generation = generation
    OBVIOUS
  <2>1. p # 0 /\ \A m \in ToSet(leases[p].chain) : leases[m].generation = generation
    BY DEF alive
  <2>2. Members(leases, p) = ToSet(leases[p].chain)
    BY <2>1 DEF Members, Chain
  <2>3. p \in Members(leases, p)
    BY <1>6, <1>7, <2>1
  <2>. QED BY <2>1, <2>2, <2>3
<1>9. Members(leases, 0) = {}
  BY DEF Members, Chain, ToSet
<1>10. Linked(leases', n) /\ leases'[n].old = p
  <2>. HIDE DEF p
  <2>1. leases'[n].old = p
    BY DEF Fresh, p
  <2>2. Members(leases', n) \subseteq 1 .. n
    <3>1. CASE alive(p)
      <4>1. Members(leases', n) = {n} \cup Members(leases, p) /\ p \in 1 .. Len(leases)
        BY <3>1, <1>5, <1>7, <1>8 DEF Fresh, p
      <4>2. \A m \in Members(leases, p) : m \in 1 .. p
        BY <4>1, <1>6
      <4>3. \A m \in Members(leases, p) : m \in 1 .. n
        BY <4>1, <4>2, <1>0
      <4>. QED BY <4>1, <4>3, <1>0
    <3>2. CASE ~alive(p)
      <4>1. Members(leases', n) = {n}
        BY <3>2, <1>5 DEF Fresh, p
      <4>. QED BY <4>1, <1>0
    <3>. QED BY <3>1, <3>2
  <2>3. Len(leases'[n].chain) # 1 =>
           p # 0 /\ Members(leases', n) = {n} \cup Members(leases', p)
    <3>1. Len(leases'[n].chain) # 1 => alive(p)
      BY DEF Fresh, p
    <3>2. alive(p) => p # 0 /\ Members(leases', n) = {n} \cup Members(leases', p)
      BY <1>4, <1>5, <1>7, <1>8 DEF Fresh, p
    <3>. QED BY <3>1, <3>2
  <2>. QED BY <2>1, <2>2, <2>3, <1>7 DEF Linked, Fresh
<1>. HIDE DEF p
<1>11. LeasesLinked'
  <2>1. ASSUME NEW l \in 1 .. n
        PROVE  /\ Linked(leases', l) /\ Len(leases'[l].chain) <= Depth
               /\ leases'[l].operation <= Len(operations')
               /\ leases'[l].old # 0 => leases'[leases'[l].old].kind = leases'[l].kind
    <3>1. CASE l = n
      <4>1. p # 0 => leases'[p].kind = kind
        BY <1>0, <1>1, <1>3, <1>7 DEF LeasesLinked, p
      <4>. QED BY <3>1, <4>1, <1>10 DEF Fresh
    <3>2. CASE l # n
      <4>1. l \in 1 .. Len(leases) /\ leases'[l] = leases[l]
        BY <1>0, <1>1, <3>2
      <4>2. /\ Linked(leases, l) /\ Len(leases[l].chain) <= Depth
            /\ leases[l].operation <= Len(operations)
            /\ leases[l].old # 0 => leases[leases[l].old].kind = leases[l].kind
        BY <1>3, <4>1 DEF LeasesLinked
      <4>3. leases[l].old \in 0 .. Len(leases)
        <5>1. leases[l].old \in Nat /\ leases[l].old < l
          BY <1>0, <4>1, <4>2, LeaseFields DEF Linked
        <5>. QED BY <5>1, <4>1, <1>0
      <4>4. leases[l].old # 0 => leases'[leases[l].old] = leases[leases[l].old]
        BY <4>3, <1>1
      <4>5. Linked(leases', l)
        BY <4>1, <4>2, <4>4, LinkedKept
      <4>6. leases[l].operation \in Nat
        BY <1>0, <4>1, LeaseFields
      <4>. QED BY <4>1, <4>2, <4>4, <4>5, <4>6, <1>0
    <3>. QED BY <3>1, <3>2
  <2>2. ASSUME NEW k \in Kinds, NEW u \in Tasks
        PROVE  /\ current'[k][u] <= n
               /\ current'[k][u] # 0 => leases'[current'[k][u]].kind = k
    <3>1. CASE k = kind /\ u = t
      BY <3>1, <1>0, <1>2 DEF Fresh
    <3>2. CASE ~(k = kind /\ u = t)
      <4>1. current'[k][u] = current[k][u] /\ current[k][u] \in 0 .. Len(leases)
        BY <3>2, <1>2, <1>3
      <4>2. current[k][u] # 0 => leases[current[k][u]].kind = k
        BY <1>3 DEF LeasesLinked
      <4>3. current[k][u] # 0 => leases'[current[k][u]] = leases[current[k][u]]
        BY <4>1, <1>1
      <4>. QED BY <4>1, <4>2, <4>3, <1>0
    <3>. QED BY <3>1, <3>2
  <2>. QED BY <2>1, <2>2, <1>1 DEF LeasesLinked
<1>12. LeaseEras'
  <2>1. leases'[n].generation = generation /\ leases'[n].home = t
    BY DEF Fresh
  <2>2. ASSUME NEW l \in 1 .. n
        PROVE  /\ leases'[l].generation <= generation /\ leases'[l].generation \in Nat
               /\ leases'[l].generation = generation => leases'[l].home \in live
               /\ \A m \in Members(leases', l) : leases'[m].generation = leases'[l].generation
    <3>1. CASE l = n
      <4>1. \A m \in Members(leases', n) : m = n \/ (m \in 1 .. Len(leases) /\ leases[m].generation = generation)
        <5>1. CASE alive(p)
          <6>1. Members(leases', n) = {n} \cup Members(leases, p) /\ p \in 1 .. Len(leases)
            BY <5>1, <1>5, <1>7, <1>8 DEF Fresh, p
          <6>2. \A m \in Members(leases, p) : m \in 1 .. Len(leases)
            BY <6>1, <1>0, <1>6
          <6>. QED BY <6>1, <6>2, <5>1, <1>8
        <5>2. CASE ~alive(p)
          BY <5>2, <1>5 DEF Fresh, p
        <5>. QED BY <5>1, <5>2
      <4>2. \A m \in Members(leases', n) : leases'[m].generation = generation
        BY <4>1, <2>1, <1>1
      <4>. QED BY <3>1, <4>2, <2>1, <1>0
    <3>2. CASE l # n
      <4>1. l \in 1 .. Len(leases) /\ leases'[l] = leases[l]
        BY <1>0, <1>1, <3>2
      <4>2. /\ leases[l].generation <= generation
            /\ leases[l].generation = generation => leases[l].home \in live
            /\ \A m \in Members(leases, l) : leases[m].generation = leases[l].generation
        BY <1>3, <4>1 DEF LeaseEras
      <4>3. \A m \in Members(leases, l) : m \in 1 .. Len(leases)
        BY <4>1, <1>0, <1>6
      <4>4. Members(leases', l) = Members(leases, l)
        BY <4>1, <1>4
      <4>5. leases[l].generation \in Nat
        BY <4>1, <1>0, LeaseFields
      <4>. QED BY <4>1, <4>2, <4>3, <4>4, <4>5, <1>1
    <3>. QED BY <3>1, <3>2
  <2>3. ASSUME NEW l \in 1 .. n, NEW m \in 1 .. n, l <= m
        PROVE  leases'[l].generation <= leases'[m].generation
    <3>1. CASE m = n
      BY <3>1, <2>1, <2>2
    <3>2. CASE m # n
      <4>1. l \in 1 .. Len(leases) /\ m \in 1 .. Len(leases)
        BY <3>2, <2>3, <1>0
      <4>. QED BY <4>1, <2>3, <1>1, <1>3 DEF LeaseEras
    <3>. QED BY <3>1, <3>2
  <2>. QED BY <2>2, <2>3, <1>1 DEF LeaseEras
<1>13. Copied'
  <2>. DEFINE Away(v, u) == leases[v].home # u => \A m \in Members(leases, v) : leases[m].home # u
              AwayNext(v, u) == leases'[v].home # u => \A m \in Members(leases', v) : leases'[m].home # u
  <2>1. ASSUME NEW v \in 1 .. Len(leases), NEW u, Away(v, u)
        PROVE  AwayNext(v, u)
    <3>1. \A m \in Members(leases, v) : m \in 1 .. Len(leases)
      BY <1>0, <1>6
    <3>. QED BY <2>1, <3>1, <1>1, <1>4
  <2>2. ASSUME NEW k \in Kinds, NEW u \in Tasks, current[k][u] # 0,
               leases[current[k][u]].generation = generation
        PROVE  Away(current[k][u], u)
    BY <2>2, <1>3 DEF Copied, Foreign
  <2>3. ASSUME NEW l \in 1 .. n, leases'[l].old # 0,
               leases'[leases'[l].old].generation = leases'[l].generation
        PROVE  AwayNext(leases'[l].old, leases'[l].home)
    <3>1. CASE l = n
      <4>1. leases'[n].old = p /\ leases'[n].home = t /\ leases'[n].generation = generation
        BY DEF Fresh, p
      <4>2. p \in 1 .. Len(leases) /\ leases[p].generation = generation
        BY <2>3, <3>1, <4>1, <1>1, <1>7
      <4>3. Away(p, t)
        <5>1. /\ current[kind][t] # 0 /\ t \in Tasks
              /\ leases[current[kind][t]].generation = generation
          BY <4>2, <1>0 DEF p
        <5>2. Away(current[kind][t], t)
          <6>. HIDE DEF Away
          <6>. QED BY <5>1, <2>2
        <5>. QED BY <5>2 DEF p
      <4>. HIDE DEF Away, AwayNext
      <4>. QED BY <3>1, <4>1, <4>2, <4>3, <2>1
    <3>2. CASE l # n
      <4>1. l \in 1 .. Len(leases) /\ leases'[l] = leases[l]
        BY <1>0, <1>1, <3>2
      <4>2. leases[l].old \in 1 .. Len(leases)
        <5>1. leases[l].old \in Nat /\ leases[l].old < l
          BY <1>0, <1>3, <4>1, LeaseFields DEF LeasesLinked, Linked
        <5>. QED BY <5>1, <4>1, <1>0, <2>3
      <4>3. leases[leases[l].old].generation = leases[l].generation
        BY <2>3, <4>1, <4>2, <1>1
      <4>4. Away(leases[l].old, leases[l].home)
        BY <1>3, <4>1, <4>2, <4>3 DEF Copied, Foreign
      <4>. HIDE DEF Away, AwayNext
      <4>. QED BY <4>1, <4>2, <4>4, <2>1
    <3>. QED BY <3>1, <3>2
  <2>4. ASSUME NEW k \in Kinds, NEW u \in Tasks, current'[k][u] # 0,
               leases'[current'[k][u]].generation = generation
        PROVE  AwayNext(current'[k][u], u)
    <3>1. CASE k = kind /\ u = t
      BY <3>1, <1>2 DEF Fresh
    <3>2. CASE ~(k = kind /\ u = t)
      <4>1. current'[k][u] = current[k][u] /\ current[k][u] \in 1 .. Len(leases)
        BY <3>2, <1>2, <1>3, <2>4
      <4>2. Away(current[k][u], u)
        BY <2>2, <2>4, <4>1, <1>1
      <4>. HIDE DEF Away, AwayNext
      <4>. QED BY <4>1, <4>2, <2>1
    <3>. QED BY <3>1, <3>2
  <2>. QED BY <2>3, <2>4, <1>1 DEF Copied, Foreign
<1>14. Reached'
  <2>1. leases'[n].generation = generation /\ leases'[n].home = t /\ leases'[n].active
        /\ leases'[n].kind = kind /\ leases'[n].old = p
    BY DEF Fresh, p
  <2>2. \A l \in 1 .. n : ~leases'[l].active => l \in ended
    <3>1. \A l \in 1 .. n : l = n \/ l \in 1 .. Len(leases)
      BY <1>0
    <3>. QED BY <3>1, <2>1, <1>1, <1>3 DEF Reached
  <2>3. ASSUME ~Severed', NEW l \in 1 .. n, leases'[l].generation = generation
        PROVE  IF l \in ended THEN ~leases'[l].active
               ELSE l \in Members(leases', current'[leases'[l].kind][leases'[l].home])
    <3>0. ~Severed
      BY <2>3
    <3>1. CASE l = n
      <4>1. l \notin ended
        BY <3>1, <1>0
      <4>2. 1 \in DOMAIN leases'[n].chain
        BY DEF Fresh
      <4>3. n \in Members(leases', n)
        BY <1>5, <4>2, Zenon DEF ToSet, Fresh
      <4>. QED BY <3>1, <4>1, <4>3, <2>1, <1>2
    <3>2. CASE l # n
      <4>1. l \in 1 .. Len(leases) /\ leases'[l] = leases[l]
        BY <1>0, <1>1, <3>2
      <4>2. IF l \in ended THEN ~leases[l].active
            ELSE l \in Members(leases, current[leases[l].kind][leases[l].home])
        BY <3>0, <4>1, <2>3, <1>3 DEF Reached
      <4>3. leases[l].kind \in Kinds /\ leases[l].home \in Tasks
        BY <4>1, <1>0, LeaseFields
      <4>4. CASE l \in ended
        BY <4>1, <4>2, <4>4
      <4>5. CASE l \notin ended /\ ~(leases[l].kind = kind /\ leases[l].home = t)
        <5>1. current'[leases[l].kind][leases[l].home] = current[leases[l].kind][leases[l].home]
          BY <4>3, <4>5, <1>2
        <5>2. current[leases[l].kind][leases[l].home] \in 0 .. Len(leases)
          BY <4>3, <1>3
        <5>. QED BY <4>1, <4>2, <4>5, <5>1, <5>2, <1>4
      <4>6. CASE l \notin ended /\ leases[l].kind = kind /\ leases[l].home = t
        <5>1. l \in Members(leases, p)
          BY <4>2, <4>6 DEF p
        <5>2. p \in 1 .. Len(leases)
          BY <5>1, <1>7, <1>9
        <5>3. leases[p].generation = generation
          BY <5>1, <5>2, <1>3, <2>3, <4>1 DEF LeaseEras
        <5>4. alive(p)
          <6>. SUFFICES ASSUME ~alive(p) PROVE FALSE
            OBVIOUS
          <6>1. Len(leases'[n].chain) = 1
            BY DEF Fresh, p
          <6>2. n \in DOMAIN leases' /\ leases'[p].generation = generation /\ p # 0
            BY <1>0, <1>1, <5>2, <5>3
          <6>3. Severed'
            BY <2>1, <6>1, <6>2 DEF Severed
          <6>. QED BY <6>3, <2>3
        <5>5. l \in Members(leases', n)
          BY <5>1, <5>4, <1>5 DEF Fresh, p
        <5>. QED BY <4>1, <4>6, <5>5, <1>2
      <4>. QED BY <4>4, <4>5, <4>6
    <3>. QED BY <3>1, <3>2
  <2>. QED BY <2>2, <2>3, <1>1 DEF Reached
<1>15. ended' \subseteq 1 .. Len(leases')
  <2>1. \A l \in ended : l \in 1 .. n
    BY <1>0
  <2>. QED BY <2>1, <1>1
<1>. QED BY <1>2, <1>11, <1>12, <1>13, <1>14, <1>15 DEF LeasesKept

(* Chains, generations and homes that stay: what revoking leaves.          *)
LEMMA SameMembers ==
    ASSUME SameLeases(leases, leases'), NEW v \in 0 .. Len(leases)
    PROVE  Members(leases', v) = Members(leases, v)
BY DEF SameLeases, Members, Chain

(* The owners of a generation that no step has changed but for their flag, *)
(* with the values of the variables that a release puts back.              *)
LEMMA ShapeKeeps ==
    ASSUME Typed, LeasesKept, SameLeases(leases, leases'), UNCHANGED <<generation, live>>,
           Len(operations) <= Len(operations'), Len(operations') \in Nat,
           current' \in [Kinds -> [Tasks -> Nat]],
           \A k \in Kinds, u \in Tasks :
              \/ current'[k][u] = current[k][u]
              \/ /\ current[k][u] # 0 /\ leases[current[k][u]].home = u
                 /\ current'[k][u] = leases[current[k][u]].old
    PROVE  LeasesLinked' /\ LeaseEras' /\ Copied'
<1>0. /\ leases \in Seq(Leases) /\ Len(leases) \in Nat /\ generation \in Nat
      /\ Len(operations) \in Nat /\ current \in [Kinds -> [Tasks -> Nat]]
  BY DEF Typed
<1>1. /\ leases' \in Seq(Leases) /\ Len(leases') = Len(leases)
      /\ \A i \in 1 .. Len(leases) :
            /\ leases'[i].kind = leases[i].kind /\ leases'[i].generation = leases[i].generation
            /\ leases'[i].operation = leases[i].operation /\ leases'[i].chain = leases[i].chain
            /\ leases'[i].old = leases[i].old /\ leases'[i].home = leases[i].home
  BY DEF SameLeases
<1>2. LeasesLinked /\ LeaseEras /\ Copied
  BY DEF LeasesKept
<1>3. \A v \in 0 .. Len(leases) : Members(leases', v) = Members(leases, v)
  BY SameMembers
<1>4. ASSUME NEW l \in 1 .. Len(leases)
      PROVE  /\ leases[l].old \in 0 .. Len(leases) /\ leases[l].old < l
             /\ \A m \in Members(leases, l) : m \in 1 .. Len(leases)
  <2>1. leases[l].old \in Nat /\ Linked(leases, l) /\ leases[l].chain \in Seq(Nat) /\ l \in Nat \ {0}
    BY <1>0, <1>2, LeaseFields DEF LeasesLinked
  <2>2. leases[l].old < l
    BY <2>1 DEF Linked
  <2>3. \A m \in Members(leases, l) : m \in 1 .. l
    BY <2>1, OwnMember
  <2>. QED BY <1>0, <2>1, <2>2, <2>3
<1>5. ASSUME NEW k \in Kinds, NEW u \in Tasks
      PROVE  current[k][u] \in 0 .. Len(leases) /\ current'[k][u] \in 0 .. Len(leases)
  <2>1. current[k][u] \in 0 .. Len(leases)
    BY <1>0, <1>2 DEF LeasesLinked
  <2>2. current[k][u] # 0 => leases[current[k][u]].old \in 0 .. Len(leases)
    BY <2>1, <1>4
  <2>. QED BY <2>1, <2>2
<1>6. LeasesLinked'
  <2>1. ASSUME NEW l \in 1 .. Len(leases)
        PROVE  /\ Linked(leases', l) /\ Len(leases'[l].chain) <= Depth
               /\ leases'[l].operation <= Len(operations')
               /\ leases'[l].old # 0 => leases'[leases'[l].old].kind = leases'[l].kind
    <3>1. /\ Linked(leases, l) /\ Len(leases[l].chain) <= Depth
          /\ leases[l].operation <= Len(operations)
          /\ leases[l].old # 0 => leases[leases[l].old].kind = leases[l].kind
      BY <1>2 DEF LeasesLinked
    <3>2. leases[l].old # 0 => /\ leases'[leases[l].old].chain = leases[leases[l].old].chain
                               /\ leases'[leases[l].old].kind = leases[leases[l].old].kind
      BY <1>1, <1>4
    <3>3. Linked(leases', l)
      <4>1. leases'[l].old = leases[l].old /\ leases'[l].chain = leases[l].chain
        BY <1>1
      <4>. QED BY <3>1, <3>2, <4>1, LinkedKept
    <3>4. leases[l].operation \in Nat
      BY <1>0, LeaseFields
    <3>. QED BY <3>1, <3>2, <3>3, <3>4, <1>0, <1>1
  <2>2. ASSUME NEW k \in Kinds, NEW u \in Tasks
        PROVE  /\ current'[k][u] <= Len(leases)
               /\ current'[k][u] # 0 => leases'[current'[k][u]].kind = k
    <3>1. current[k][u] # 0 => leases[current[k][u]].kind = k
      BY <1>2 DEF LeasesLinked
    <3>2. current'[k][u] # 0 => leases'[current'[k][u]].kind = leases[current'[k][u]].kind
      BY <1>1, <1>5
    <3>3. current[k][u] # 0 /\ leases[current[k][u]].old # 0 =>
             leases[leases[current[k][u]].old].kind = leases[current[k][u]].kind
      BY <1>2, <1>5 DEF LeasesLinked
    <3>4. current'[k][u] # 0 => leases[current'[k][u]].kind = k
      BY <3>1, <3>3
    <3>. QED BY <3>2, <3>4, <1>5
  <2>. QED BY <2>1, <2>2, <1>1 DEF LeasesLinked
<1>7. LeaseEras'
  <2>1. ASSUME NEW l \in 1 .. Len(leases)
        PROVE  /\ leases'[l].generation <= generation
               /\ leases'[l].generation = generation => leases'[l].home \in live
               /\ \A m \in Members(leases', l) : leases'[m].generation = leases'[l].generation
    <3>1. /\ leases[l].generation <= generation
          /\ leases[l].generation = generation => leases[l].home \in live
          /\ \A m \in Members(leases, l) : leases[m].generation = leases[l].generation
      BY <1>2 DEF LeaseEras
    <3>2. Members(leases', l) = Members(leases, l)
      BY <1>3
    <3>3. \A m \in Members(leases, l) : leases'[m].generation = leases[m].generation
      BY <1>1, <1>4
    <3>. QED BY <3>1, <3>2, <3>3, <1>1
  <2>2. ASSUME NEW l \in 1 .. Len(leases), NEW m \in 1 .. Len(leases), l <= m
        PROVE  leases'[l].generation <= leases'[m].generation
    BY <2>2, <1>1, <1>2 DEF LeaseEras
  <2>. QED BY <2>1, <2>2, <1>1 DEF LeaseEras
<1>8. Copied'
  <2>. DEFINE Away(v, u) == leases[v].home # u => \A m \in Members(leases, v) : leases[m].home # u
              AwayNext(v, u) == leases'[v].home # u => \A m \in Members(leases', v) : leases'[m].home # u
  <2>1. ASSUME NEW v \in 1 .. Len(leases), NEW u, Away(v, u)
        PROVE  AwayNext(v, u)
    BY <2>1, <1>1, <1>3, <1>4
  <2>2. ASSUME NEW l \in 1 .. Len(leases), leases[l].old # 0,
               leases[leases[l].old].generation = leases[l].generation
        PROVE  Away(leases[l].old, leases[l].home)
    BY <2>2, <1>2 DEF Copied, Foreign
  <2>3. ASSUME NEW l \in 1 .. Len(leases), leases'[l].old # 0,
               leases'[leases'[l].old].generation = leases'[l].generation
        PROVE  AwayNext(leases'[l].old, leases'[l].home)
    <3>1. leases[l].old \in 1 .. Len(leases) /\ leases[leases[l].old].generation = leases[l].generation
      BY <2>3, <1>1, <1>4
    <3>. HIDE DEF Away, AwayNext
    <3>2. Away(leases[l].old, leases[l].home)
      BY <2>2, <3>1
    <3>. QED BY <2>1, <3>1, <3>2, <1>1
  <2>4. ASSUME NEW k \in Kinds, NEW u \in Tasks, current'[k][u] # 0,
               leases'[current'[k][u]].generation = generation
        PROVE  AwayNext(current'[k][u], u)
    <3>1. current'[k][u] \in 1 .. Len(leases) /\ leases[current'[k][u]].generation = generation
      BY <2>4, <1>1, <1>5
    <3>2. CASE current'[k][u] = current[k][u]
      <4>1. Away(current[k][u], u)
        BY <3>1, <3>2, <1>2 DEF Copied, Foreign
      <4>. HIDE DEF Away, AwayNext
      <4>. QED BY <2>1, <3>1, <3>2, <4>1
    <3>3. CASE /\ current[k][u] # 0 /\ leases[current[k][u]].home = u
               /\ current'[k][u] = leases[current[k][u]].old
      <4>. DEFINE v == current[k][u]
      <4>1. v \in 1 .. Len(leases) /\ leases[v].home = u
        BY <3>3, <1>5
      <4>2. leases[v].old \in 1 .. Len(leases) /\ leases[v].old < v
        BY <3>1, <3>3, <4>1, <1>4
      <4>3. leases[leases[v].old].generation <= leases[v].generation /\ leases[v].generation <= generation
        BY <4>1, <4>2, <1>2 DEF LeaseEras
      <4>4. leases[v].generation \in Nat
        BY <4>1, <1>0, LeaseFields
      <4>5. leases[leases[v].old].generation = generation
        BY <3>1, <3>3
      <4>6. leases[v].generation = generation
        BY <4>3, <4>4, <4>5, <1>0
      <4>. HIDE DEF v
      <4>7. Away(leases[v].old, u)
        BY <2>2, <4>1, <4>2, <4>5, <4>6
      <4>. HIDE DEF Away, AwayNext
      <4>. QED BY <2>1, <4>2, <4>7, <3>3 DEF v
    <3>. QED BY <3>2, <3>3
  <2>. QED BY <2>3, <2>4, <1>1 DEF Copied, Foreign
<1>. QED BY <1>6, <1>7, <1>8

(* Steps that touch no lease.                                              *)
LEMMA LeasesStay ==
    ASSUME Typed, LeasesKept, UNCHANGED <<leases, current, generation, live, ended>>,
           Len(operations) <= Len(operations'), Len(operations') \in Nat, Severed => Severed'
    PROVE  LeasesKept'
<1>1. SameLeases(leases, leases') /\ current' \in [Kinds -> [Tasks -> Nat]]
  BY DEF Typed, SameLeases
<1>2. LeasesLinked' /\ LeaseEras' /\ Copied'
  BY <1>1, ShapeKeeps
<1>3. Reached'
  BY DEF LeasesKept, Reached, Members, Chain
<1>. QED BY <1>2, <1>3 DEF LeasesKept

(* A thread or task that starts with a copy of the variables.              *)
LEMMA SpawnKeeps ==
    ASSUME Typed, LeasesKept, NEW t \in live, NEW u \in Tasks \ live,
           live' = live \cup {u},
           current' = [k \in Kinds |-> [current[k] EXCEPT ![u] = current[k][t]]],
           UNCHANGED <<leases, generation, ended, operations>>, Severed => Severed'
    PROVE  LeasesKept' /\ current' \in [Kinds -> [Tasks -> Nat]]
<1>0. /\ leases \in Seq(Leases) /\ Len(leases) \in Nat /\ generation \in Nat /\ t \in Tasks
      /\ current \in [Kinds -> [Tasks -> Nat]]
  BY DEF Typed
<1>1. /\ current' \in [Kinds -> [Tasks -> Nat]]
      /\ \A k \in Kinds : current'[k][u] = current[k][t]
      /\ \A k \in Kinds, w \in Tasks : w # u => current'[k][w] = current[k][w]
  BY <1>0
<1>2. LeasesLinked /\ LeaseEras /\ Copied /\ Reached
  BY DEF LeasesKept
<1>3. LeasesLinked'
  <2>1. \A k \in Kinds, w \in Tasks :
           /\ current'[k][w] <= Len(leases)
           /\ current'[k][w] # 0 => leases[current'[k][w]].kind = k
    BY <1>0, <1>1, <1>2 DEF LeasesLinked
  <2>2. \A l \in 1 .. Len(leases) :
           /\ Linked(leases, l) /\ Len(leases[l].chain) <= Depth
           /\ leases[l].operation <= Len(operations)
           /\ leases[l].old # 0 => leases[leases[l].old].kind = leases[l].kind
    BY <1>2 DEF LeasesLinked
  <2>. QED BY <2>1, <2>2 DEF LeasesLinked, Linked, Members, Chain
<1>4. LeaseEras'
  BY <1>2 DEF LeaseEras, Members, Chain
<1>5. \A l \in 1 .. Len(leases) : leases[l].generation = generation => leases[l].home # u
  BY <1>2 DEF LeaseEras
<1>6. Copied'
  <2>1. ASSUME NEW k \in Kinds, current[k][t] # 0, leases[current[k][t]].generation = generation
        PROVE  \A m \in Members(leases, current[k][t]) : leases[m].home # u
    <3>. DEFINE v == current[k][t]
    <3>1. v \in 1 .. Len(leases)
      BY <2>1, <1>0, <1>2 DEF LeasesLinked
    <3>2. \A m \in Members(leases, v) : leases[m].generation = generation
      BY <3>1, <2>1, <1>2 DEF LeaseEras
    <3>3. \A m \in Members(leases, v) : m \in 1 .. Len(leases)
      <4>1. Linked(leases, v) /\ leases[v].chain \in Seq(Nat) /\ v \in Nat \ {0}
        BY <3>1, <1>0, <1>2, LeaseFields DEF LeasesLinked
      <4>. HIDE DEF v
      <4>2. \A m \in Members(leases, v) : m \in 1 .. v
        BY <4>1, OwnMember
      <4>. QED BY <3>1, <4>1, <4>2, <1>0
    <3>. QED BY <3>2, <3>3, <1>5
  <2>2. \A k \in Kinds, w \in Tasks :
           current'[k][w] # 0 /\ leases[current'[k][w]].generation = generation =>
              Foreign(current'[k][w], w)
    <3>. SUFFICES ASSUME NEW k \in Kinds, NEW w \in Tasks, current'[k][w] # 0,
                         leases[current'[k][w]].generation = generation
                  PROVE  Foreign(current'[k][w], w)
      OBVIOUS
    <3>1. CASE w = u
      BY <3>1, <1>1, <2>1 DEF Foreign
    <3>2. CASE w # u
      <4>1. current'[k][w] = current[k][w]
        BY <3>2, <1>1
      <4>. QED BY <4>1, <1>2 DEF Copied
    <3>. QED BY <3>1, <3>2
  <2>. QED BY <2>2, <1>2 DEF Copied, Foreign, Members, Chain
<1>7. Reached'
  <2>1. ASSUME ~Severed', NEW l \in 1 .. Len(leases), leases[l].generation = generation
        PROVE  IF l \in ended THEN ~leases[l].active
               ELSE l \in Members(leases, current'[leases[l].kind][leases[l].home])
    <3>1. IF l \in ended THEN ~leases[l].active
          ELSE l \in Members(leases, current[leases[l].kind][leases[l].home])
      BY <2>1, <1>2 DEF Reached
    <3>2. leases[l].kind \in Kinds /\ leases[l].home \in Tasks
      BY <1>0, LeaseFields
    <3>3. current'[leases[l].kind][leases[l].home] = current[leases[l].kind][leases[l].home]
      BY <2>1, <3>2, <1>1, <1>5
    <3>. QED BY <3>1, <3>3
  <2>2. \A l \in 1 .. Len(leases) : ~leases[l].active => l \in ended
    BY <1>2 DEF Reached
  <2>. QED BY <2>1, <2>2 DEF Reached, Members, Chain
<1>. QED BY <1>1, <1>3, <1>4, <1>6, <1>7 DEF LeasesKept

(* init and the child of a fork: every lease belongs to the past.          *)
LEMMA GenerationKeeps ==
    ASSUME Typed, LeasesKept, generation' = generation + 1, UNCHANGED <<leases, ended, operations>>,
           current' = current \/ current' = [k \in Kinds |-> [w \in Tasks |-> 0]]
    PROVE  LeasesKept' /\ current' \in [Kinds -> [Tasks -> Nat]]
<1>0. /\ leases \in Seq(Leases) /\ Len(leases) \in Nat /\ generation \in Nat
      /\ current \in [Kinds -> [Tasks -> Nat]]
  BY DEF Typed
<1>1. /\ current' \in [Kinds -> [Tasks -> Nat]]
      /\ \A k \in Kinds, w \in Tasks : current'[k][w] = 0 \/ current'[k][w] = current[k][w]
  BY <1>0
<1>2. LeasesLinked /\ LeaseEras /\ Copied /\ Reached
  BY DEF LeasesKept
<1>3. \A l \in 1 .. Len(leases) : leases[l].generation \in Nat /\ leases[l].generation <= generation
  BY <1>0, <1>2, LeaseFields DEF LeaseEras
<1>4. \A l \in 1 .. Len(leases) : leases[l].generation # generation' /\ leases[l].generation <= generation'
  BY <1>0, <1>3
<1>5. \A k \in Kinds, w \in Tasks : current'[k][w] # 0 => current'[k][w] \in 1 .. Len(leases)
  BY <1>0, <1>1, <1>2 DEF LeasesLinked
<1>6. LeasesLinked'
  <2>1. \A k \in Kinds, w \in Tasks :
           /\ current'[k][w] <= Len(leases)
           /\ current'[k][w] # 0 => leases[current'[k][w]].kind = k
    BY <1>0, <1>1, <1>2 DEF LeasesLinked
  <2>2. \A l \in 1 .. Len(leases) :
           /\ Linked(leases, l) /\ Len(leases[l].chain) <= Depth
           /\ leases[l].operation <= Len(operations)
           /\ leases[l].old # 0 => leases[leases[l].old].kind = leases[l].kind
    BY <1>2 DEF LeasesLinked
  <2>. QED BY <2>1, <2>2 DEF LeasesLinked, Linked, Members, Chain
<1>7. LeaseEras'
  BY <1>2, <1>4 DEF LeaseEras, Members, Chain
<1>8. Copied'
  <2>1. \A k \in Kinds, w \in Tasks : current'[k][w] # 0 => leases[current'[k][w]].generation # generation'
    BY <1>4, <1>5
  <2>. QED BY <2>1, <1>2 DEF Copied, Foreign, Members, Chain
<1>9. Reached'
  <2>1. \A l \in 1 .. Len(leases) : ~leases[l].active => l \in ended
    BY <1>2 DEF Reached
  <2>. QED BY <2>1, <1>4 DEF Reached
<1>. QED BY <1>1, <1>6, <1>7, <1>8, <1>9 DEF LeasesKept

(* What release does to the leases: it revokes one that the variable leads *)
(* to, or ignores the token.                                               *)
Found(t, l) ==
    /\ l \in Members(leases, current[leases[l].kind][t])
    /\ l = current[leases[l].kind][t] => leases[l].home = t

Revokes(t, l) ==
    /\ ended' = ended \cup {l} /\ ~leases'[l].active
    /\ \A i \in 1 .. Len(leases) : i # l => leases'[i].active = leases[i].active
    /\ current' = IF l = current[leases[l].kind][t]
                  THEN [current EXCEPT ![leases[l].kind][t] = leases[l].old] ELSE current
    /\ operations' = Ended(t, leases[l].operation).operations
    /\ operation' = Ended(t, leases[l].operation).operation

(* release revokes what it finds through its task's variable; what it does *)
(* not find stays, and is only counted as ended by its own task.           *)
LEMMA ReleaseCases ==
    ASSUME Typed, LeasesLinked, NEW t \in live, NEW l \in 1 .. Len(leases), release(t, l)
    PROVE  /\ SameLeases(leases, leases') /\ l \notin ended
           /\ left' = IF leases[l].home = t THEN left \cup ({leases[l].operation} \ {0}) ELSE left
           /\ Found(t, l) => Revokes(t, l)
           /\ ~Found(t, l) =>
                 /\ UNCHANGED <<leases, current, operations, operation>>
                 /\ ended' = IF leases[l].home = t THEN ended \cup {l} ELSE ended
<1>. DEFINE kind == leases[l].kind
            value == current[kind][t]
            found == l \in Followed(Chain(leases, value))
            foreign == l = value /\ leases[l].home # t
<1>0. /\ leases \in Seq(Leases) /\ Len(leases) \in Nat /\ t \in Tasks /\ kind \in Kinds
      /\ current \in [Kinds -> [Tasks -> Nat]]
  BY LeaseFields DEF Typed
<1>1. /\ l \notin ended
      /\ left' = IF leases[l].home = t THEN left \cup ({leases[l].operation} \ {0}) ELSE left
      /\ ended' = IF leases[l].home = t \/ (found /\ ~foreign) THEN ended \cup {l} ELSE ended
      /\ IF found /\ ~foreign
         THEN /\ leases' = [leases EXCEPT ![l].active = FALSE]
              /\ current' = IF l = value THEN [current EXCEPT ![kind][t] = leases[l].old] ELSE current
              /\ operations' = Ended(t, leases[l].operation).operations
              /\ operation' = Ended(t, leases[l].operation).operation
         ELSE UNCHANGED <<leases, current, operations, operation>>
  BY Zenon DEF release
<1>2. value \in 0 .. Len(leases)
  BY <1>0 DEF LeasesLinked
<1>3. Followed(Chain(leases, value)) = Members(leases, value)
  <2>1. Chain(leases, value) \in Seq(Nat) /\ Len(Chain(leases, value)) <= Depth
    <3>1. CASE value = 0
      <4>1. Chain(leases, value) = <<>>
        BY <3>1 DEF Chain
      <4>. QED BY <4>1, ScopesAssumption
    <3>2. CASE value # 0
      <4>1. value \in 1 .. Len(leases) /\ Chain(leases, value) = leases[value].chain
        BY <3>2, <1>2 DEF Chain
      <4>2. leases[value].chain \in Seq(Nat) /\ Len(leases[value].chain) <= Depth
        BY <4>1, <1>0, LeaseFields DEF LeasesLinked
      <4>. QED BY <4>1, <4>2
    <3>. QED BY <3>1, <3>2
  <2>. HIDE DEF value
  <2>. QED BY <2>1, FollowedAll DEF Members
<1>4. Found(t, l) <=> found /\ ~foreign
  BY <1>3 DEF Found
<1>. HIDE DEF value, found, foreign
<1>5. CASE Found(t, l)
  <2>1. Deactivated(leases, l, leases')
    BY <1>1, <1>4, <1>5 DEF Deactivated
  <2>4. /\ SameLeases(leases, leases') /\ ~leases'[l].active
        /\ \A i \in 1 .. Len(leases) : i # l => leases'[i].active = leases[i].active
    BY <2>1, <1>0, LeaseRevoked
  <2>5. ended' = ended \cup {l}
    BY <1>1, <1>4, <1>5
  <2>6. current' = IF l = value THEN [current EXCEPT ![kind][t] = leases[l].old] ELSE current
    BY <1>1, <1>4, <1>5
  <2>7. /\ operations' = Ended(t, leases[l].operation).operations
        /\ operation' = Ended(t, leases[l].operation).operation
    BY <1>1, <1>4, <1>5
  <2>8. Revokes(t, l)
    BY <2>4, <2>5, <2>6, <2>7 DEF Revokes, value
  <2>. QED BY <1>1, <1>5, <2>4, <2>8
<1>6. CASE ~Found(t, l)
  <2>1. UNCHANGED <<leases, current, operations, operation>>
    BY <1>1, <1>4, <1>6
  <2>2. ended' = IF leases[l].home = t THEN ended \cup {l} ELSE ended
    BY <1>1, <1>4, <1>6
  <2>3. SameLeases(leases, leases')
    BY <1>0, <2>1 DEF SameLeases
  <2>. QED BY <1>1, <1>6, <2>1, <2>2, <2>3
<1>. QED BY <1>5, <1>6

(* end_context and end_request.                                            *)
LEMMA ReleaseKeeps ==
    ASSUME Typed, LeasesKept, NEW t \in live, NEW l \in 1 .. Len(leases), release(t, l),
           Len(operations) <= Len(operations'), Len(operations') \in Nat, Severed => Severed'
    PROVE  LeasesKept' /\ current' \in [Kinds -> [Tasks -> Nat]] /\ ended' \subseteq 1 .. Len(leases')
<1>. DEFINE kind == leases[l].kind
<1>0. /\ leases \in Seq(Leases) /\ Len(leases) \in Nat /\ t \in Tasks /\ kind \in Kinds
      /\ current \in [Kinds -> [Tasks -> Nat]] /\ leases[l].old \in Nat
      /\ ended \subseteq 1 .. Len(leases)
  BY LeaseFields DEF Typed
<1>1. LeasesLinked /\ LeaseEras /\ Copied /\ Reached
  BY DEF LeasesKept
<1>2. /\ SameLeases(leases, leases') /\ l \notin ended
      /\ Found(t, l) => Revokes(t, l)
      /\ ~Found(t, l) =>
            /\ UNCHANGED <<leases, current>>
            /\ ended' = IF leases[l].home = t THEN ended \cup {l} ELSE ended
  BY <1>1, ReleaseCases
<1>3. UNCHANGED <<generation, live>>
  BY Zenon DEF release
<1>4. /\ current' \in [Kinds -> [Tasks -> Nat]]
      /\ \A k \in Kinds, u \in Tasks :
            \/ current'[k][u] = current[k][u]
            \/ /\ k = kind /\ u = t /\ current[k][u] = l /\ leases[l].home = t
               /\ current'[k][u] = leases[l].old
  <2>1. CASE Found(t, l) /\ l = current[kind][t]
    <3>1. current' = [current EXCEPT ![kind][t] = leases[l].old] /\ leases[l].home = t
      BY <2>1, <1>2 DEF Revokes, Found
    <3>. HIDE DEF kind
    <3>. QED BY <3>1, <2>1, <1>0
  <2>2. CASE ~(Found(t, l) /\ l = current[kind][t])
    <3>1. current' = current
      BY <2>2, <1>2 DEF Revokes
    <3>. QED BY <3>1, <1>0
  <2>. QED BY <2>1, <2>2
<1>5. LeasesLinked' /\ LeaseEras' /\ Copied'
  <2>1. \A k \in Kinds, u \in Tasks :
           \/ current'[k][u] = current[k][u]
           \/ /\ current[k][u] # 0 /\ leases[current[k][u]].home = u
              /\ current'[k][u] = leases[current[k][u]].old
    BY <1>0, <1>4
  <2>. QED BY <2>1, <1>2, <1>3, <1>4, ShapeKeeps
<1>6. \A i \in 1 .. Len(leases) :
         i # l => leases'[i].active = leases[i].active /\ (i \in ended' <=> i \in ended)
  BY <1>2 DEF Revokes
<1>7. Len(leases') = Len(leases)
      /\ \A i \in 1 .. Len(leases) : /\ leases'[i].generation = leases[i].generation
                                     /\ leases'[i].kind = leases[i].kind
                                     /\ leases'[i].home = leases[i].home
  BY <1>2 DEF SameLeases
<1>8. \A i \in 1 .. Len(leases) : ~leases'[i].active => i \in ended'
  <2>1. ~leases'[l].active => l \in ended'
    <3>1. CASE Found(t, l)
      BY <3>1, <1>2 DEF Revokes
    <3>2. CASE ~Found(t, l)
      BY <3>2, <1>1, <1>2 DEF Reached
    <3>. QED BY <3>1, <3>2
  <2>. QED BY <2>1, <1>1, <1>6 DEF Reached
<1>9. ASSUME ~Severed', NEW i \in 1 .. Len(leases), leases[i].generation = generation
      PROVE  IF i \in ended' THEN ~leases'[i].active
             ELSE i \in Members(leases', current'[leases[i].kind][leases[i].home])
  <2>0. /\ leases[i].kind \in Kinds /\ leases[i].home \in Tasks
        /\ IF i \in ended THEN ~leases[i].active
           ELSE i \in Members(leases, current[leases[i].kind][leases[i].home])
    BY <1>0, <1>1, <1>9, LeaseFields DEF Reached
  <2>. DEFINE v == current[leases[i].kind][leases[i].home]
              v2 == current'[leases[i].kind][leases[i].home]
  <2>1. v \in 0 .. Len(leases)
    BY <2>0, <1>0, <1>1 DEF LeasesLinked
  <2>2. Members(leases', v) = Members(leases, v)
    <3>. HIDE DEF v
    <3>. QED BY <2>1, <1>2, SameMembers
  <2>3. CASE i = l
    <3>1. CASE Found(t, l)
      BY <2>3, <3>1, <1>2 DEF Revokes
    <3>2. CASE ~Found(t, l)
      <4>1. leases[l].home # t
        BY <2>0, <2>3, <3>2, <1>2 DEF Found
      <4>2. l \notin ended' /\ l \in Members(leases, v) /\ v2 = v
        BY <4>1, <2>0, <2>3, <3>2, <1>2
      <4>. HIDE DEF v, v2
      <4>3. l \in Members(leases', v2)
        BY <4>2, <2>2
      <4>. QED BY <4>2, <4>3, <2>3 DEF v2
    <3>. QED BY <3>1, <3>2
  <2>4. CASE i # l /\ i \in ended
    BY <2>0, <2>4, <1>6
  <2>5. CASE i # l /\ i \notin ended /\ v2 = v
    BY <2>0, <2>2, <2>5, <1>6
  <2>6. CASE i # l /\ i \notin ended /\ v2 # v
    <3>1. v = l /\ v2 = leases[l].old
      BY <2>0, <2>6, <1>4
    <3>2. i \in Members(leases, l)
      BY <3>1, <2>0, <2>6
    <3>3. Linked(leases, l) /\ leases[l].chain \in Seq(Nat)
      BY <1>0, <1>1, LeaseFields DEF LeasesLinked
    <3>4. Len(leases[l].chain) # 1
      <4>. SUFFICES ASSUME Len(leases[l].chain) = 1 PROVE FALSE
        OBVIOUS
      <4>1. DOMAIN leases[l].chain = {1} /\ leases[l].chain[1] = l
        BY <3>3 DEF Linked
      <4>2. l # 0
        OBVIOUS
      <4>3. Members(leases, l) = {l}
        BY <4>1, <4>2 DEF Members, Chain, ToSet
      <4>. QED BY <4>3, <3>2, <2>6
    <3>5. i \in Members(leases, leases[l].old) /\ leases[l].old < l
      BY <3>2, <3>3, <3>4, <2>6 DEF Linked
    <3>6. leases[l].old \in 0 .. Len(leases)
      BY <3>5, <1>0
    <3>7. i \in Members(leases', leases[l].old)
      BY <3>5, <3>6, <1>2, SameMembers
    <3>. HIDE DEF v, v2
    <3>8. i \in Members(leases', v2)
      BY <3>1, <3>7
    <3>. QED BY <3>8, <2>6, <1>6 DEF v2
  <2>. QED BY <2>3, <2>4, <2>5, <2>6
<1>10. Reached'
  BY <1>3, <1>7, <1>8, <1>9 DEF Reached
<1>11. ended' \subseteq 1 .. Len(leases')
  BY <1>0, <1>2, <1>7 DEF Revokes
<1>. QED BY <1>4, <1>5, <1>10, <1>11 DEF LeasesKept

-----------------------------------------------------------------------------
(* Operations: what begin appends.                                         *)
FreshOperation(t, n) ==
    /\ operations' \in Seq(Operations) /\ Len(operations') = n
    /\ \A o \in 1 .. Len(operations) : operations'[o] = operations[o]
    /\ operations'[n].revision = revision /\ operations'[n].active
    /\ operations'[n].old = operation[t] /\ operations'[n].home = t
    /\ operations'[n].chain \in Seq(Nat) /\ operations'[n].chain # <<>>
    /\ operations'[n].chain[1] = n /\ Len(operations'[n].chain) < Depth
    /\ IF current_operation(t) # 0
       THEN ToSet(operations'[n].chain) = {n} \cup Members(operations, operation[t])
       ELSE ToSet(operations'[n].chain) = {n} /\ Len(operations'[n].chain) = 1
    /\ operation' = [operation EXCEPT ![t] = n]

(* begin appends one operation and stores it, or refuses at the depth      *)
(* limit.                                                                  *)
LEMMA BeganCases ==
    ASSUME Typed, OperationsLinked, NEW t \in Tasks,
           operations' = Began(t).operations, operation' = Began(t).operation
    PROVE  \/ UNCHANGED <<operations, operation>> /\ Began(t).token = 0
           \/ FreshOperation(t, Len(operations) + 1) /\ Began(t).token = Len(operations) + 1
<1>. DEFINE n == Len(operations) + 1
            c == current_operation(t)
            tail == Chain(operations, c)
            chain == <<n>> \o tail
            e == [revision |-> revision, chain |-> chain, active |-> TRUE,
                  old |-> operation[t], home |-> t]
<1>0. /\ operations \in Seq(Operations) /\ Len(operations) \in Nat /\ n \in Nat /\ revision \in Nat
      /\ operation \in [Tasks -> Nat] /\ operation[t] \in 0 .. Len(operations)
  BY DEF Typed, OperationsLinked
<1>1. c = 0 \/ (c = operation[t] /\ c \in 1 .. Len(operations))
  <2>1. c = 0 \/ (c = operation[t] /\ c # 0)
    BY Zenon DEF current_operation
  <2>. HIDE DEF c
  <2>. QED BY <2>1, <1>0
<1>2. tail \in Seq(Nat) /\ Len(tail) \in Nat
  <2>1. CASE c = 0
    BY <2>1 DEF Chain
  <2>2. CASE c # 0
    <3>1. tail = operations[c].chain /\ c \in 1 .. Len(operations)
      BY <1>1, <2>2 DEF Chain
    <3>. HIDE DEF c
    <3>. QED BY <3>1, <1>0, OperationFields
  <2>. QED BY <2>1, <2>2
<1>. HIDE DEF c
<1>3. CASE Len(tail) >= Depth - 1
  <2>1. Began(t) = [token |-> 0, operations |-> operations, operation |-> operation]
    BY <1>3, Zenon DEF Began, c
  <2>. QED BY <2>1
<1>4. CASE ~(Len(tail) >= Depth - 1)
  <2>1. Began(t) = [token |-> n, operations |-> Append(operations, e),
                    operation |-> [operation EXCEPT ![t] = n]]
    BY <1>4, Zenon DEF Began, c
  <2>2. /\ chain \in Seq(Nat) /\ Len(chain) = Len(tail) + 1 /\ chain[1] = n /\ chain # <<>>
        /\ ToSet(chain) = {n} \cup ToSet(tail)
    <3>. HIDE DEF tail, n
    <3>. QED BY <1>0, <1>2, ChainGrown
  <2>3. Len(chain) < Depth
    <3>1. Depth \in Nat
      BY ScopesAssumption
    <3>. HIDE DEF chain, tail
    <3>. QED BY <3>1, <2>2, <1>2, <1>4
  <2>4. e \in Operations
    <3>1. chain \in Seq(Nat)
      BY <2>2
    <3>. HIDE DEF chain
    <3>. QED BY <3>1, <1>0 DEF Operations
  <2>5. /\ operations' \in Seq(Operations) /\ Len(operations') = n /\ operations'[n] = e
        /\ \A i \in 1 .. Len(operations) : operations'[i] = operations[i]
    <3>1. operations' = Append(operations, e)
      BY <2>1
    <3>. HIDE DEF e
    <3>. QED BY <3>1, <2>4, <1>0, Appended
  <2>6. operation' = [operation EXCEPT ![t] = n] /\ Began(t).token = n
    BY <2>1
  <2>7. /\ operations'[n].revision = revision /\ operations'[n].active
        /\ operations'[n].old = operation[t] /\ operations'[n].home = t
        /\ operations'[n].chain = chain
    BY <2>5
  <2>8. IF current_operation(t) # 0
        THEN ToSet(chain) = {n} \cup Members(operations, operation[t])
        ELSE ToSet(chain) = {n} /\ Len(chain) = 1
    <3>1. CASE c # 0
      <4>1. tail = Chain(operations, operation[t])
        BY <3>1, <1>1
      <4>. HIDE DEF chain, tail
      <4>. QED BY <4>1, <3>1, <2>2 DEF Members, c
    <3>2. CASE c = 0
      <4>1. ToSet(tail) = {} /\ Len(tail) = 0
        BY <3>2 DEF Chain, ToSet
      <4>. HIDE DEF chain, tail
      <4>. QED BY <4>1, <3>2, <2>2 DEF c
    <3>. QED BY <3>1, <3>2
  <2>. HIDE DEF e, chain
  <2>9. FreshOperation(t, n)
    BY <2>2, <2>3, <2>5, <2>6, <2>7, <2>8 DEF FreshOperation
  <2>. QED BY <2>6, <2>9
<1>. QED BY <1>3, <1>4

(* A chain of operations that all run in the current revision.             *)
LEMMA CurrentChain ==
    ASSUME Typed, OperationsLinked, NEW t \in Tasks, current_operation(t) # 0
    PROVE  /\ current_operation(t) = operation[t] /\ operation[t] \in 1 .. Len(operations)
           /\ \A m \in Members(operations, operation[t]) :
                 operations[m].active /\ operations[m].revision = revision
           /\ operation[t] \in Members(operations, operation[t])
           /\ Members(operations, operation[t]) \subseteq 1 .. operation[t]
<1>1. /\ operation[t] # 0 /\ current_operation(t) = operation[t]
      /\ \A m \in ToSet(operations[operation[t]].chain) :
            operations[m].active /\ operations[m].revision = revision
  BY Zenon DEF current_operation
<1>2. operation[t] \in 1 .. Len(operations) /\ operations \in Seq(Operations) /\ operation[t] \in Nat \ {0}
  BY <1>1 DEF Typed, OperationsLinked
<1>3. Linked(operations, operation[t]) /\ operations[operation[t]].chain \in Seq(Nat)
  BY <1>2, OperationFields DEF OperationsLinked
<1>4. Members(operations, operation[t]) = ToSet(operations[operation[t]].chain)
  BY <1>1 DEF Members, Chain
<1>5. /\ operation[t] \in Members(operations, operation[t])
      /\ Members(operations, operation[t]) \subseteq 1 .. operation[t]
  BY <1>2, <1>3, OwnMember
<1>. QED BY <1>1, <1>2, <1>4, <1>5

(* A new operation: begin_request and the context manager.                 *)
LEMMA BeginKeeps ==
    ASSUME Typed, OperationsLinked, NEW b \in 0 .. Len(operations), OperationsReached(b),
           NEW t \in live, NEW n, n = Len(operations) + 1, FreshOperation(t, n),
           UNCHANGED <<revision, live, left>>, Severed => Severed'
    PROVE  /\ OperationsLinked' /\ OperationsReached(b)' /\ operation' \in [Tasks -> Nat]
           /\ left' \subseteq 1 .. Len(operations')
<1>. DEFINE p == operation[t]
<1>0. /\ operations \in Seq(Operations) /\ Len(operations) \in Nat /\ n \in Nat /\ revision \in Nat
      /\ t \in Tasks /\ operation \in [Tasks -> Nat] /\ left \subseteq 1 .. Len(operations)
      /\ \A u \in Tasks : operation[u] \in 0 .. Len(operations)
      /\ b \in Nat /\ b < n
  BY DEF Typed, OperationsLinked
<1>1. /\ operations' \in Seq(Operations) /\ Len(operations') = n /\ DOMAIN operations' = 1 .. n
      /\ \A o \in 1 .. Len(operations) : operations'[o] = operations[o]
  BY <1>0 DEF FreshOperation
<1>2. /\ operation' \in [Tasks -> Nat] /\ operation'[t] = n
      /\ \A u \in Tasks : u # t => operation'[u] = operation[u]
  BY <1>0 DEF FreshOperation
<1>3. /\ operations'[n].revision = revision /\ operations'[n].active
      /\ operations'[n].old = p /\ operations'[n].home = t /\ p \in 0 .. Len(operations)
  BY <1>0 DEF FreshOperation
<1>4. \A v \in 0 .. Len(operations) : Members(operations', v) = Members(operations, v)
  BY <1>0, <1>1 DEF Members, Chain
<1>5. Members(operations', n) = ToSet(operations'[n].chain)
  BY <1>0 DEF Members, Chain
<1>6. ASSUME NEW o \in 1 .. Len(operations)
      PROVE  /\ \A m \in Members(operations, o) : m \in 1 .. Len(operations)
             /\ operations[o].old \in 0 .. Len(operations)
  <2>1. Linked(operations, o) /\ operations[o].chain \in Seq(Nat) /\ o \in Nat \ {0}
        /\ operations[o].old \in Nat
    BY <1>0, OperationFields DEF OperationsLinked
  <2>2. \A m \in Members(operations, o) : m \in 1 .. o
    BY <2>1, OwnMember
  <2>3. operations[o].old < o
    BY <2>1 DEF Linked
  <2>. QED BY <2>1, <2>2, <2>3, <1>0
<1>7. current_operation(t) # 0 =>
         /\ p \in 1 .. Len(operations) /\ Members(operations', n) = {n} \cup Members(operations, p)
         /\ \A m \in Members(operations, p) : operations[m].revision = revision
  BY <1>0, <1>5, CurrentChain DEF FreshOperation
<1>8. current_operation(t) = 0 => Members(operations', n) = {n} /\ Len(operations'[n].chain) = 1
  BY <1>5 DEF FreshOperation
<1>9. Members(operations, 0) = {}
  BY DEF Members, Chain, ToSet
<1>10. n \in Members(operations', n)
  BY <1>7, <1>8
<1>. HIDE DEF p
<1>11. OperationsLinked'
  <2>1. Linked(operations', n) /\ Len(operations'[n].chain) < Depth
    <3>1. \A m \in Members(operations', n) : m \in 1 .. n
      <4>1. CASE current_operation(t) # 0
        <5>1. \A m \in Members(operations, p) : m \in 1 .. n
          BY <4>1, <1>0, <1>6, <1>7
        <5>. QED BY <5>1, <4>1, <1>0, <1>7
      <4>2. CASE current_operation(t) = 0
        BY <4>2, <1>0, <1>8
      <4>. QED BY <4>1, <4>2
    <3>2. Len(operations'[n].chain) # 1 =>
             p # 0 /\ Members(operations', n) = {n} \cup Members(operations', p)
      BY <1>4, <1>7, <1>8
    <3>3. p < n
      BY <1>0, <1>3
    <3>. QED BY <3>1, <3>2, <3>3, <1>3 DEF Linked, FreshOperation
  <2>2. ASSUME NEW o \in 1 .. Len(operations)
        PROVE  Linked(operations', o) /\ Len(operations'[o].chain) < Depth
    <3>1. Linked(operations, o) /\ Len(operations[o].chain) < Depth
      BY DEF OperationsLinked
    <3>2. operations'[o].old = operations[o].old /\ operations'[o].chain = operations[o].chain
      BY <1>1
    <3>3. operations[o].old # 0 =>
             operations'[operations[o].old].chain = operations[operations[o].old].chain
      BY <1>1, <1>6
    <3>. QED BY <3>1, <3>2, <3>3, LinkedKept
  <2>3. \A o \in 1 .. n : o = n \/ o \in 1 .. Len(operations)
    BY <1>0
  <2>4. \A u \in Tasks : operation'[u] <= n
    BY <1>0, <1>2
  <2>. QED BY <2>1, <2>2, <2>3, <2>4, <1>1 DEF OperationsLinked
<1>12. OperationsReached(b)'
  <2>1. \A u \in Tasks : operation[u] = 0 \/ operation[u] > b
    BY DEF OperationsReached
  <2>2. \A u \in Tasks : operation'[u] = 0 \/ operation'[u] > b
    BY <2>1, <1>0, <1>2
  <2>3. p = 0 \/ p > b
    BY <2>1, <1>0 DEF p
  <2>4. ASSUME NEW o \in 1 .. Len(operations), o > b
        PROVE  /\ operations[o].revision <= revision
               /\ operations[o].revision = revision => operations[o].home \in live
               /\ operations[o].old = 0 \/ operations[o].old > b
               /\ \A m \in Members(operations, o) :
                     m > b /\ operations[m].revision = operations[o].revision
               /\ ~Severed /\ operations[o].revision = revision =>
                     IF o \in left THEN ~operations[o].active
                     ELSE o \in Members(operations, operation[operations[o].home])
    BY <2>4 DEF OperationsReached
  <2>5. ASSUME NEW o \in 1 .. n, o > b
        PROVE  /\ operations'[o].revision <= revision
               /\ operations'[o].revision = revision => operations'[o].home \in live
               /\ operations'[o].old = 0 \/ operations'[o].old > b
               /\ \A m \in Members(operations', o) :
                     m > b /\ operations'[m].revision = operations'[o].revision
               /\ ~Severed' /\ operations'[o].revision = revision =>
                     IF o \in left THEN ~operations'[o].active
                     ELSE o \in Members(operations', operation'[operations'[o].home])
    <3>1. CASE o = n
      <4>1. \A m \in Members(operations', n) : m > b /\ operations'[m].revision = revision
        <5>1. CASE current_operation(t) # 0
          <6>1. p \in 1 .. Len(operations) /\ p > b
            BY <5>1, <2>3, <1>7
          <6>2. \A m \in Members(operations, p) : m > b /\ m \in 1 .. Len(operations)
            BY <6>1, <2>4, <1>6
          <6>. QED BY <6>2, <5>1, <1>0, <1>1, <1>3, <1>7
        <5>2. CASE current_operation(t) = 0
          BY <5>2, <1>0, <1>3, <1>8
        <5>. QED BY <5>1, <5>2
      <4>2. n \notin left
        BY <1>0
      <4>. QED BY <3>1, <4>1, <4>2, <2>3, <1>0, <1>2, <1>3, <1>10
    <3>2. CASE o # n
      <4>1. o \in 1 .. Len(operations) /\ operations'[o] = operations[o]
        BY <3>2, <1>0, <1>1
      <4>2. \A m \in Members(operations, o) : operations'[m] = operations[m]
        BY <4>1, <1>1, <1>6
      <4>3. Members(operations', o) = Members(operations, o)
        BY <4>1, <1>4
      <4>4. ASSUME ~Severed', operations[o].revision = revision
            PROVE  IF o \in left THEN ~operations'[o].active
                   ELSE o \in Members(operations', operation'[operations'[o].home])
        <5>1. IF o \in left THEN ~operations[o].active
              ELSE o \in Members(operations, operation[operations[o].home])
          BY <2>4, <2>5, <4>1, <4>4
        <5>2. operations[o].home \in Tasks
          BY <4>1, <1>0, OperationFields
        <5>3. CASE o \in left
          BY <5>1, <5>3, <4>1
        <5>4. CASE o \notin left /\ operations[o].home # t
          <6>1. operation'[operations[o].home] = operation[operations[o].home]
            BY <5>2, <5>4, <1>2
          <6>2. operation[operations[o].home] \in 0 .. Len(operations)
            BY <5>2, <1>0
          <6>. QED BY <5>1, <5>4, <6>1, <6>2, <4>1, <1>4
        <5>5. CASE o \notin left /\ operations[o].home = t
          <6>1. o \in Members(operations, p)
            BY <5>1, <5>5 DEF p
          <6>2. p \in 1 .. Len(operations) /\ p > b
            BY <6>1, <2>3, <1>3, <1>9
          <6>3. operations[p].revision = revision
            BY <6>1, <6>2, <2>4, <4>4
          <6>4. current_operation(t) # 0
            <7>. SUFFICES ASSUME current_operation(t) = 0 PROVE FALSE
              OBVIOUS
            <7>1. n \in DOMAIN operations' /\ operations'[p].revision = revision /\ p # 0
              BY <6>2, <6>3, <1>0, <1>1
            <7>2. Severed'
              BY <7>1, <1>3, <1>8 DEF Severed
            <7>. QED BY <7>2, <4>4
          <6>5. o \in Members(operations', n)
            BY <6>1, <6>4, <1>7
          <6>. QED BY <5>5, <6>5, <4>1, <1>2
        <5>. QED BY <5>3, <5>4, <5>5
      <4>. QED BY <2>4, <2>5, <4>1, <4>2, <4>3, <4>4
    <3>. QED BY <3>1, <3>2
  <2>. QED BY <2>2, <2>5, <1>1 DEF OperationsReached
<1>13. left' \subseteq 1 .. Len(operations')
  <2>1. \A o \in left : o \in 1 .. n
    BY <1>0
  <2>. QED BY <2>1, <1>1
<1>. QED BY <1>2, <1>11, <1>12, <1>13

(* What end does: it ends an operation that the variable leads to, or      *)
(* ignores the token.                                                      *)
FoundOperation(t, o) ==
    /\ o # 0 /\ o \in Members(operations, operation[t])
    /\ o = operation[t] => operations[o].home = t

Ends(t, o) ==
    /\ ~operations'[o].active
    /\ \A i \in 1 .. Len(operations) : i # o => operations'[i].active = operations[i].active
    /\ operation' = IF o = operation[t] THEN [operation EXCEPT ![t] = operations[o].old] ELSE operation

(* end deactivates what it finds through its task's variable, or nothing.  *)
LEMMA EndedCases ==
    ASSUME Typed, OperationsLinked, NEW t \in Tasks, NEW o \in 0 .. Len(operations),
           operations' = Ended(t, o).operations, operation' = Ended(t, o).operation
    PROVE  /\ SameOperations(operations, operations')
           /\ FoundOperation(t, o) => Ends(t, o)
           /\ ~FoundOperation(t, o) => UNCHANGED <<operations, operation>>
<1>. DEFINE value == operation[t]
            ignored == \/ o = 0 \/ o \notin Followed(Chain(operations, value))
                       \/ (o = value /\ operations[o].home # t)
<1>0. /\ operations \in Seq(Operations) /\ Len(operations) \in Nat
      /\ operation \in [Tasks -> Nat] /\ value \in 0 .. Len(operations)
  BY DEF Typed, OperationsLinked
<1>1. Followed(Chain(operations, value)) = Members(operations, value)
  <2>1. Chain(operations, value) \in Seq(Nat) /\ Len(Chain(operations, value)) <= Depth
    <3>1. CASE value = 0
      <4>1. Chain(operations, value) = <<>>
        BY <3>1 DEF Chain
      <4>. QED BY <4>1, ScopesAssumption
    <3>2. CASE value # 0
      <4>1. value \in 1 .. Len(operations) /\ Chain(operations, value) = operations[value].chain
        BY <3>2, <1>0 DEF Chain
      <4>2. operations[value].chain \in Seq(Nat) /\ Len(operations[value].chain) < Depth
        BY <4>1, <1>0, OperationFields DEF OperationsLinked
      <4>. DEFINE m == Len(operations[value].chain)
      <4>3. m \in Nat /\ m < Depth /\ Depth \in Nat
        BY <4>2, ScopesAssumption
      <4>4. m <= Depth
        <5>. HIDE DEF m
        <5>. QED BY <4>3
      <4>. QED BY <4>1, <4>2, <4>4
    <3>. QED BY <3>1, <3>2
  <2>. HIDE DEF value
  <2>. QED BY <2>1, FollowedAll DEF Members
<1>2. FoundOperation(t, o) <=> ~ignored
  BY <1>1 DEF FoundOperation
<1>3. CASE FoundOperation(t, o)
  <2>1. Ended(t, o) =
           [operations |-> [operations EXCEPT ![o].active = FALSE],
            operation |-> IF o = operation[t] THEN [operation EXCEPT ![t] = operations[o].old]
                          ELSE operation]
    BY <1>2, <1>3, Zenon DEF Ended
  <2>2. Deactivated(operations, o, operations')
    BY <2>1 DEF Deactivated
  <2>3. operation' = IF o = operation[t] THEN [operation EXCEPT ![t] = operations[o].old] ELSE operation
    BY <2>1
  <2>4. o \in 1 .. Len(operations)
    BY <1>0, <1>3 DEF FoundOperation
  <2>5. /\ SameOperations(operations, operations') /\ ~operations'[o].active
        /\ \A i \in 1 .. Len(operations) : i # o => operations'[i].active = operations[i].active
    BY <2>2, <2>4, <1>0, OperationEnded
  <2>. QED BY <1>3, <2>3, <2>5 DEF Ends
<1>4. CASE ~FoundOperation(t, o)
  <2>1. Ended(t, o) = [operations |-> operations, operation |-> operation]
    BY <1>2, <1>4, Zenon DEF Ended
  <2>2. UNCHANGED <<operations, operation>>
    BY <2>1
  <2>. QED BY <1>0, <1>4, <2>2 DEF SameOperations
<1>. QED BY <1>3, <1>4

(* A flag does not change what an operation is nested in.                  *)
LEMMA SameOperationMembers ==
    ASSUME SameOperations(operations, operations'), NEW v \in 0 .. Len(operations)
    PROVE  Members(operations', v) = Members(operations, v)
BY DEF SameOperations, Members, Chain

(* Ending an operation, by the context manager or with its request; a task *)
(* that ends its own has it counted as left.                               *)
LEMMA EndKeeps ==
    ASSUME Typed, OperationsLinked, NEW b \in 0 .. Len(operations), OperationsReached(b),
           NEW t \in live, NEW o \in 0 .. Len(operations),
           operations' = Ended(t, o).operations, operation' = Ended(t, o).operation,
           UNCHANGED <<revision, live>>, Severed => Severed',
           left \subseteq left', left' \subseteq left \cup {o},
           o > b /\ operations[o].home = t => o \in left',
           o \in left' /\ o > b /\ o \notin left => operations[o].home = t
    PROVE  /\ OperationsLinked' /\ OperationsReached(b)' /\ operation' \in [Tasks -> Nat]
           /\ left' \subseteq {o} \cup 1 .. Len(operations') /\ SameOperations(operations, operations')
<1>0. /\ operations \in Seq(Operations) /\ Len(operations) \in Nat /\ revision \in Nat
      /\ t \in Tasks /\ operation \in [Tasks -> Nat] /\ left \subseteq 1 .. Len(operations)
      /\ \A u \in Tasks : operation[u] \in 0 .. Len(operations)
      /\ b \in Nat
  BY DEF Typed, OperationsLinked
<1>1. /\ SameOperations(operations, operations')
      /\ FoundOperation(t, o) => Ends(t, o)
      /\ ~FoundOperation(t, o) => UNCHANGED <<operations, operation>>
  BY <1>0, EndedCases
<1>2. /\ operations' \in Seq(Operations) /\ Len(operations') = Len(operations)
      /\ \A i \in 1 .. Len(operations) :
            /\ operations'[i].revision = operations[i].revision
            /\ operations'[i].chain = operations[i].chain
            /\ operations'[i].old = operations[i].old /\ operations'[i].home = operations[i].home
  BY <1>1 DEF SameOperations
<1>3. \A v \in 0 .. Len(operations) : Members(operations', v) = Members(operations, v)
  BY <1>1, SameOperationMembers
<1>4. ASSUME NEW i \in 1 .. Len(operations)
      PROVE  /\ \A m \in Members(operations, i) : m \in 1 .. Len(operations)
             /\ operations[i].old \in 0 .. Len(operations)
             /\ Linked(operations, i) /\ operations[i].chain \in Seq(Nat)
  <2>1. Linked(operations, i) /\ operations[i].chain \in Seq(Nat) /\ i \in Nat \ {0}
        /\ operations[i].old \in Nat
    BY <1>0, OperationFields DEF OperationsLinked
  <2>2. \A m \in Members(operations, i) : m \in 1 .. i
    BY <2>1, OwnMember
  <2>3. operations[i].old < i
    BY <2>1 DEF Linked
  <2>. QED BY <2>1, <2>2, <2>3, <1>0
<1>5. /\ operation' \in [Tasks -> Nat]
      /\ \A u \in Tasks :
            \/ operation'[u] = operation[u]
            \/ /\ u = t /\ operation[t] = o /\ o \in 1 .. Len(operations)
               /\ operations[o].home = t /\ operation'[t] = operations[o].old
  <2>1. CASE FoundOperation(t, o) /\ o = operation[t]
    <3>1. /\ operation' = [operation EXCEPT ![t] = operations[o].old] /\ operations[o].home = t
          /\ o \in 1 .. Len(operations)
      BY <2>1, <1>0, <1>1 DEF Ends, FoundOperation
    <3>2. operations[o].old \in Nat
      BY <3>1, <1>0, OperationFields
    <3>. QED BY <3>1, <3>2, <2>1, <1>0
  <2>2. CASE ~(FoundOperation(t, o) /\ o = operation[t])
    <3>1. operation' = operation
      BY <2>2, <1>1 DEF Ends
    <3>. QED BY <3>1, <1>0
  <2>. QED BY <2>1, <2>2
<1>6. \A i \in 1 .. Len(operations) :
         i # o => operations'[i].active = operations[i].active /\ (i \in left' <=> i \in left)
  BY <1>1 DEF Ends
<1>7. OperationsLinked'
  <2>1. ASSUME NEW i \in 1 .. Len(operations)
        PROVE  Linked(operations', i) /\ Len(operations'[i].chain) < Depth
    <3>1. Linked(operations, i) /\ Len(operations[i].chain) < Depth
      BY DEF OperationsLinked
    <3>2. operations'[i].old = operations[i].old /\ operations'[i].chain = operations[i].chain
      BY <1>2
    <3>3. operations[i].old # 0 =>
             operations'[operations[i].old].chain = operations[operations[i].old].chain
      BY <1>2, <1>4
    <3>. QED BY <3>1, <3>2, <3>3, LinkedKept
  <2>2. \A u \in Tasks : operation'[u] <= Len(operations)
    BY <1>0, <1>4, <1>5
  <2>. QED BY <2>1, <2>2, <1>2 DEF OperationsLinked
<1>8. OperationsReached(b)'
  <2>1. ASSUME NEW i \in 1 .. Len(operations), i > b
        PROVE  /\ operations[i].revision <= revision
               /\ operations[i].revision = revision => operations[i].home \in live
               /\ operations[i].old = 0 \/ operations[i].old > b
               /\ \A m \in Members(operations, i) :
                     m > b /\ operations[m].revision = operations[i].revision
               /\ ~Severed /\ operations[i].revision = revision =>
                     IF i \in left THEN ~operations[i].active
                     ELSE i \in Members(operations, operation[operations[i].home])
    BY <2>1 DEF OperationsReached
  <2>2. \A u \in Tasks : operation[u] = 0 \/ operation[u] > b
    BY DEF OperationsReached
  <2>3. \A u \in Tasks : operation'[u] = 0 \/ operation'[u] > b
    <3>. SUFFICES ASSUME NEW u \in Tasks PROVE operation'[u] = 0 \/ operation'[u] > b
      OBVIOUS
    <3>1. CASE operation'[u] = operation[u]
      BY <3>1, <2>2
    <3>2. CASE /\ u = t /\ operation[t] = o /\ o \in 1 .. Len(operations)
               /\ operation'[t] = operations[o].old
      <4>1. o > b
        BY <3>2, <2>2, <1>0
      <4>. QED BY <4>1, <3>2, <2>1
    <3>. QED BY <3>1, <3>2, <1>5
  <2>4. ASSUME ~Severed', NEW i \in 1 .. Len(operations), i > b, operations[i].revision = revision
        PROVE  IF i \in left' THEN ~operations'[i].active
               ELSE i \in Members(operations', operation'[operations[i].home])
    <3>. DEFINE h == operations[i].home
    <3>0. /\ h \in Tasks
          /\ IF i \in left THEN ~operations[i].active ELSE i \in Members(operations, operation[h])
      BY <2>1, <2>4, <1>0, OperationFields
    <3>1. operation[h] \in 0 .. Len(operations) /\ operation'[h] \in 0 .. Len(operations)
      BY <3>0, <1>0, <1>4, <1>5
    <3>2. CASE i \in left
      <4>1. i \in left'
        BY <3>2
      <4>2. ~operations'[i].active
        BY <3>0, <3>2, <1>1, <1>6 DEF Ends
      <4>. QED BY <4>1, <4>2
    <3>3. CASE i \notin left /\ i \in left'
      <4>1. i = o /\ h = t
        BY <3>3, <2>4
      <4>2. FoundOperation(t, o)
        BY <4>1, <3>0, <3>3 DEF FoundOperation
      <4>. QED BY <4>1, <4>2, <3>3, <1>1 DEF Ends
    <3>4. CASE i \notin left' /\ operation'[h] = operation[h]
      <4>1. i \notin left
        BY <3>4
      <4>2. i \in Members(operations, operation[h])
        BY <4>1, <3>0
      <4>. HIDE DEF h
      <4>3. i \in Members(operations', operation'[h])
        BY <4>2, <3>1, <3>4, <1>3
      <4>. QED BY <4>3, <3>4 DEF h
    <3>5. CASE i \notin left' /\ operation'[h] # operation[h]
      <4>1. /\ h = t /\ operation[t] = o /\ o \in 1 .. Len(operations)
            /\ operations[o].home = t /\ operation'[t] = operations[o].old
        BY <3>0, <3>5, <1>5
      <4>2. o > b
        BY <4>1, <2>2, <1>0
      <4>3. o \in left' /\ i # o
        BY <4>1, <4>2, <3>5
      <4>4. i \in Members(operations, o)
        BY <4>1, <3>0, <3>5
      <4>5. Linked(operations, o) /\ operations[o].chain \in Seq(Nat) /\ o # 0
        BY <4>1, <1>4
      <4>6. Len(operations[o].chain) # 1
        <5>. SUFFICES ASSUME Len(operations[o].chain) = 1 PROVE FALSE
          OBVIOUS
        <5>1. DOMAIN operations[o].chain = {1} /\ operations[o].chain[1] = o
          BY <4>5 DEF Linked
        <5>2. Members(operations, o) = {o}
          BY <4>5, <5>1 DEF Members, Chain, ToSet
        <5>. QED BY <5>2, <4>3, <4>4
      <4>7. i \in Members(operations, operations[o].old)
        BY <4>3, <4>4, <4>5, <4>6 DEF Linked
      <4>8. i \in Members(operations', operations[o].old)
        BY <4>1, <4>7, <1>3, <1>4
      <4>. HIDE DEF h
      <4>9. i \in Members(operations', operation'[h])
        BY <4>1, <4>8
      <4>. QED BY <4>9, <3>5 DEF h
    <3>. QED BY <3>2, <3>3, <3>4, <3>5
  <2>5. ASSUME NEW i \in 1 .. Len(operations), i > b
        PROVE  \A m \in Members(operations', i) :
                  m > b /\ operations'[m].revision = operations'[i].revision
    <3>1. Members(operations', i) = Members(operations, i)
      BY <1>3
    <3>2. \A m \in Members(operations, i) : m \in 1 .. Len(operations)
      BY <1>4
    <3>. QED BY <2>1, <2>5, <3>1, <3>2, <1>2
  <2>6. ASSUME NEW i \in 1 .. Len(operations), i > b
        PROVE  /\ operations'[i].revision <= revision
               /\ operations'[i].revision = revision => operations'[i].home \in live
               /\ operations'[i].old = 0 \/ operations'[i].old > b
    BY <2>1, <2>6, <1>2
  <2>. QED BY <2>3, <2>4, <2>5, <2>6, <1>2 DEF OperationsReached
<1>. QED BY <1>0, <1>1, <1>2, <1>5, <1>7, <1>8

(* Steps that end and begin no operation; one may be counted as left that  *)
(* was of the past.                                                        *)
LEMMA OperationsStay ==
    ASSUME Typed, OperationsLinked, NEW b \in 0 .. Len(operations), OperationsReached(b),
           UNCHANGED <<operations, operation, revision, live>>, Severed => Severed',
           left \subseteq left',
           \A i \in left' \ left : i > b /\ operations[i].revision = revision => Severed'
    PROVE  OperationsLinked' /\ OperationsReached(b)'
<1>1. OperationsLinked'
  BY DEF OperationsLinked, Linked, Members, Chain
<1>2. ASSUME NEW o \in 1 .. Len(operations), o > b, ~Severed', operations[o].revision = revision
      PROVE  IF o \in left' THEN ~operations[o].active
             ELSE o \in Members(operations, operation[operations[o].home])
  <2>1. IF o \in left THEN ~operations[o].active
        ELSE o \in Members(operations, operation[operations[o].home])
    BY <1>2 DEF OperationsReached
  <2>. QED BY <2>1, <1>2
<1>3. /\ \A t \in Tasks : operation[t] = 0 \/ operation[t] > b
      /\ \A o \in 1 .. Len(operations) : o > b =>
            /\ operations[o].revision <= revision
            /\ operations[o].revision = revision => operations[o].home \in live
            /\ operations[o].old = 0 \/ operations[o].old > b
            /\ \A m \in Members(operations, o) :
                  m > b /\ operations[m].revision = operations[o].revision
  BY DEF OperationsReached
<1>4. OperationsReached(b)'
  BY <1>2, <1>3 DEF OperationsReached, Members, Chain
<1>. QED BY <1>1, <1>4

(* A new task copies the operation its parent's variable holds.            *)
LEMMA OperationsSpawn ==
    ASSUME Typed, OperationsLinked, NEW b \in 0 .. Len(operations), OperationsReached(b),
           NEW t \in live, NEW u \in Tasks \ live, live' = live \cup {u},
           operation' = [operation EXCEPT ![u] = operation[t]],
           UNCHANGED <<operations, revision, left>>, Severed => Severed'
    PROVE  OperationsLinked' /\ OperationsReached(b)' /\ operation' \in [Tasks -> Nat]
<1>0. /\ operations \in Seq(Operations) /\ operation \in [Tasks -> Nat] /\ t \in Tasks
      /\ \A w \in Tasks : operation[w] <= Len(operations)
  BY DEF Typed, OperationsLinked
<1>1. /\ operation' \in [Tasks -> Nat] /\ operation'[u] = operation[t]
      /\ \A w \in Tasks : w # u => operation'[w] = operation[w]
  BY <1>0
<1>2. OperationsLinked'
  <2>1. \A w \in Tasks : operation'[w] <= Len(operations)
    BY <1>0, <1>1
  <2>2. \A o \in 1 .. Len(operations) : Linked(operations, o) /\ Len(operations[o].chain) < Depth
    BY DEF OperationsLinked
  <2>. QED BY <2>1, <2>2 DEF OperationsLinked, Linked, Members, Chain
<1>3. /\ \A w \in Tasks : operation[w] = 0 \/ operation[w] > b
      /\ \A o \in 1 .. Len(operations) : o > b =>
            /\ operations[o].revision <= revision
            /\ operations[o].revision = revision => operations[o].home \in live
            /\ operations[o].old = 0 \/ operations[o].old > b
            /\ \A m \in Members(operations, o) :
                  m > b /\ operations[m].revision = operations[o].revision
  BY DEF OperationsReached
<1>4. \A w \in Tasks : operation'[w] = 0 \/ operation'[w] > b
  BY <1>0, <1>1, <1>3
<1>5. ASSUME NEW o \in 1 .. Len(operations), o > b, ~Severed', operations[o].revision = revision
      PROVE  IF o \in left THEN ~operations[o].active
             ELSE o \in Members(operations, operation'[operations[o].home])
  <2>1. IF o \in left THEN ~operations[o].active
        ELSE o \in Members(operations, operation[operations[o].home])
    BY <1>5 DEF OperationsReached
  <2>2. operations[o].home \in live /\ operations[o].home \in Tasks
    BY <1>0, <1>3, <1>5, OperationFields
  <2>3. operation'[operations[o].home] = operation[operations[o].home]
    BY <2>2, <1>1
  <2>. QED BY <2>1, <2>3
<1>6. OperationsReached(b)'
  BY <1>3, <1>4, <1>5 DEF OperationsReached, Members, Chain
<1>. QED BY <1>1, <1>2, <1>6

(* init and dispose: every operation belongs to the past.                  *)
LEMMA OperationsRevision ==
    ASSUME Typed, OperationsLinked, NEW b \in 0 .. Len(operations), OperationsReached(b),
           revision' = revision + 1, UNCHANGED <<operations, operation, left>>
    PROVE  OperationsLinked' /\ OperationsReached(b)'
<1>0. operations \in Seq(Operations) /\ revision \in Nat
  BY DEF Typed
<1>1. OperationsLinked'
  BY DEF OperationsLinked, Linked, Members, Chain
<1>2. /\ \A w \in Tasks : operation[w] = 0 \/ operation[w] > b
      /\ \A o \in 1 .. Len(operations) : o > b =>
            /\ operations[o].revision <= revision
            /\ operations[o].old = 0 \/ operations[o].old > b
            /\ \A m \in Members(operations, o) :
                  m > b /\ operations[m].revision = operations[o].revision
  BY DEF OperationsReached
<1>3. \A o \in 1 .. Len(operations) : o > b =>
         operations[o].revision <= revision' /\ operations[o].revision # revision'
  <2>1. \A o \in 1 .. Len(operations) : operations[o].revision \in Nat
    BY <1>0, OperationFields
  <2>. QED BY <2>1, <1>0, <1>2
<1>4. OperationsReached(b)'
  BY <1>2, <1>3 DEF OperationsReached, Members, Chain
<1>. QED BY <1>1, <1>4

(* The child of a fork can reach no operation that was begun before.       *)
LEMMA OperationsFork ==
    ASSUME Typed, OperationsLinked, operation' = [u \in Tasks |-> 0], UNCHANGED <<operations>>
    PROVE  /\ OperationsLinked' /\ operation' \in [Tasks -> Nat]
           /\ \A b : b = Len(operations) => OperationsReached(b)'
<1>0. operations \in Seq(Operations) /\ Len(operations) \in Nat
  BY DEF Typed
<1>1. operation' \in [Tasks -> Nat] /\ \A u \in Tasks : operation'[u] = 0
  OBVIOUS
<1>2. OperationsLinked'
  <2>1. \A u \in Tasks : operation'[u] <= Len(operations)
    BY <1>0, <1>1
  <2>2. \A o \in 1 .. Len(operations) : Linked(operations, o) /\ Len(operations[o].chain) < Depth
    BY DEF OperationsLinked
  <2>. QED BY <2>1, <2>2 DEF OperationsLinked, Linked, Members, Chain
<1>3. ASSUME NEW b, b = Len(operations) PROVE OperationsReached(b)'
  <2>1. \A o \in 1 .. Len(operations) : ~(o > b)
    BY <1>0, <1>3
  <2>. QED BY <2>1, <1>1 DEF OperationsReached
<1>. QED BY <1>1, <1>2, <1>3

(* Requests and their operations, over any step.                           *)
LEMMA RequestsKeep ==
    ASSUME Typed, LeasesLinked, NEW b \in 0 .. Len(operations), OperationsReached(b),
           RequestOperations(b), Len(leases) <= Len(leases'), Len(leases') \in Nat,
           revision' \in Nat, revision' >= revision,
           generation' = generation \/ revision' > revision, generation' \in Nat,
           \A l \in 1 .. Len(leases) :
              /\ leases'[l].operation = leases[l].operation /\ leases'[l].home = leases[l].home
              /\ leases'[l].generation = leases[l].generation,
           \A o \in 1 .. Len(operations) :
              operations'[o].home = operations[o].home /\ operations'[o].revision = operations[o].revision,
           \A l \in 1 .. Len(leases') : l > Len(leases) /\ leases'[l].operation > b =>
              /\ operations'[leases'[l].operation].home = leases'[l].home
              /\ leases'[l].generation = generation'
    PROVE  RequestOperations(b)'
<1>0. /\ leases \in Seq(Leases) /\ operations \in Seq(Operations) /\ Len(leases) \in Nat
      /\ Len(operations) \in Nat /\ revision \in Nat /\ generation \in Nat /\ b \in Nat
  BY DEF Typed
<1>. SUFFICES ASSUME NEW l \in 1 .. Len(leases'), leases'[l].operation > b
              PROVE  /\ operations'[leases'[l].operation].home = leases'[l].home
                     /\ leases'[l].generation < generation' =>
                           operations'[leases'[l].operation].revision < revision'
  BY DEF RequestOperations
<1>1. CASE l > Len(leases)
  BY <1>1
<1>2. CASE ~(l > Len(leases))
  <2>1. l \in 1 .. Len(leases)
    BY <1>0, <1>2
  <2>. DEFINE o == leases[l].operation
  <2>2. leases'[l].operation = o /\ leases'[l].home = leases[l].home
        /\ leases'[l].generation = leases[l].generation
    BY <2>1
  <2>3. o \in Nat /\ leases[l].generation \in Nat /\ o <= Len(operations)
    BY <2>1, <1>0, LeaseFields DEF LeasesLinked
  <2>4. o > b
    BY <2>2
  <2>. HIDE DEF o
  <2>5. o \in 1 .. Len(operations)
    BY <2>3, <2>4, <1>0
  <2>6. operations'[o].home = operations[o].home /\ operations'[o].revision = operations[o].revision
    BY <2>5
  <2>7. operations[o].revision \in Nat /\ operations[o].revision <= revision
    BY <2>4, <2>5, <1>0, OperationFields DEF OperationsReached
  <2>8. /\ operations[o].home = leases[l].home
        /\ leases[l].generation < generation => operations[o].revision < revision
    BY <2>1, <2>4 DEF RequestOperations, o
  <2>9. leases[l].generation < generation' => operations[o].revision < revision'
    <3>1. CASE generation' = generation
      BY <3>1, <2>7, <2>8, <1>0
    <3>2. CASE revision' > revision
      BY <3>2, <2>7, <1>0
    <3>. QED BY <3>1, <3>2
  <2>. QED BY <2>2, <2>6, <2>8, <2>9
<1>. QED BY <1>1, <1>2

-----------------------------------------------------------------------------
(* The directives of a request are those of a token it carries, or none.   *)
LEMMA TriggersType ==
    ASSUME NEW request \in Requests, NEW key, NEW at
    PROVE  resolve_request_trigger_directives(request, key, at) \in Triggers
BY Zenon DEF resolve_request_trigger_directives, extract_trigger_token, Triggers

(* A step that binds, or only begins, keeps what was bound before.         *)
LEMMA FreshKept ==
    ASSUME Typed,
           \/ \E t \in Tasks, k \in Kinds, o \in Nat : Fresh(t, k, o, Len(leases) + 1)
           \/ SameLeases(leases, leases'),
           \/ \E t \in Tasks : FreshOperation(t, Len(operations) + 1)
           \/ SameOperations(operations, operations')
    PROVE  /\ Kept /\ Len(leases) \in Nat /\ Len(operations) \in Nat
           /\ Len(leases') \in Nat /\ Len(operations') \in Nat
<1>0. /\ leases \in Seq(Leases) /\ operations \in Seq(Operations)
      /\ Len(leases) \in Nat /\ Len(operations) \in Nat
  BY DEF Typed
<1>1. /\ Len(leases) <= Len(leases') /\ leases' \in Seq(Leases) /\ Len(leases') \in Nat
      /\ \A l \in 1 .. Len(leases) :
            /\ leases'[l].generation = leases[l].generation /\ leases'[l].chain = leases[l].chain
            /\ leases'[l].old = leases[l].old
  BY <1>0 DEF Fresh, SameLeases
<1>2. /\ Len(operations) <= Len(operations') /\ operations' \in Seq(Operations)
      /\ Len(operations') \in Nat
      /\ \A o \in 1 .. Len(operations) :
            /\ operations'[o].revision = operations[o].revision
            /\ operations'[o].chain = operations[o].chain /\ operations'[o].old = operations[o].old
  BY <1>0 DEF FreshOperation, SameOperations
<1>. QED BY <1>0, <1>1, <1>2 DEF Kept

(* A store that is left alone keeps its entries.                           *)
LEMMA StoresStay ==
    ASSUME Typed
    PROVE  /\ leases' = leases => SameLeases(leases, leases')
           /\ operations' = operations => SameOperations(operations, operations')
BY DEF Typed, SameLeases, SameOperations

(* The variables that scopes do not share with probes.                     *)
LEMMA ProbesStay ==
    ASSUME IInv, UNCHANGED <<probe_buffers, probe, now>>
    PROVE  /\ Buffered' /\ probe_buffers' \subseteq Labels /\ now' \in 0 .. MaxTime
           /\ DOMAIN probe' = Tasks
           /\ \A t \in Tasks : probe'[t].pc = "prepared" => probe'[t].label \in Labels
BY DEF IInv, Buffered, Typed

(* _bind_scoped_context keeps the invariant.                               *)
LEMMA BindStep ==
    ASSUME IInv, NEW t \in Tasks, bind_context(t)
    PROVE  IInv'
<1>. DEFINE n == Len(leases) + 1
            kind == "context"
<1>0. Typed /\ LeasesKept /\ OperationsLinked /\ LeasesLinked
  BY DEF IInv, LeasesKept
<1>1. /\ t \in live /\ Bind(t, kind, 0, <<>>)
      /\ UNCHANGED <<generation, revision, operations, operation, live, now, ended, left,
                     probe_buffers, probe>>
  BY DEF bind_context, probing
<1>2. kind \in Kinds /\ <<>> \in Triggers /\ 0 \in Nat
  BY DEF Kinds, Triggers
<1>. HIDE DEF kind
<1>3. Fresh(t, kind, 0, n)
  BY <1>0, <1>1, <1>2, BindAppends
<1>4. SameOperations(operations, operations')
  BY <1>0, <1>1, StoresStay
<1>5. /\ Kept /\ Len(leases) \in Nat /\ Len(operations) \in Nat
      /\ Len(leases') \in Nat /\ Len(operations') \in Nat
  BY <1>0, <1>2, <1>3, <1>4, FreshKept
<1>6. Severed => Severed'
  BY <1>0, <1>5, SeveredStays
<1>7. current' = [current EXCEPT ![kind][t] = n]
  BY <1>1 DEF Bind
<1>8. LeasesKept' /\ current' \in [Kinds -> [Tasks -> Nat]] /\ ended' \subseteq 1 .. Len(leases')
  <2>1. Len(operations) <= Len(operations') /\ 0 <= Len(operations')
    BY <1>5 DEF Kept
  <2>. QED BY <2>1, <1>0, <1>1, <1>2, <1>3, <1>5, <1>6, <1>7, BindKeeps
<1>9. PICK b \in 0 .. Len(operations) : OperationsReached(b) /\ RequestOperations(b)
  BY DEF IInv, OperationsKept
<1>10. OperationsLinked' /\ OperationsReached(b)'
  BY <1>0, <1>1, <1>6, <1>9, OperationsStay
<1>11. RequestOperations(b)'
  <2>1. \A l \in 1 .. Len(leases') : l > Len(leases) => leases'[l].operation = 0
    BY <1>3, <1>5 DEF Fresh
  <2>2. \A l \in 1 .. Len(leases') : l > Len(leases) /\ leases'[l].operation > b =>
              /\ operations'[leases'[l].operation].home = leases'[l].home
              /\ leases'[l].generation = generation'
    BY <2>1
  <2>3. \A l \in 1 .. Len(leases) :
              /\ leases'[l].operation = leases[l].operation /\ leases'[l].home = leases[l].home
              /\ leases'[l].generation = leases[l].generation
    BY <1>3 DEF Fresh
  <2>4. \A o \in 1 .. Len(operations) :
              operations'[o].home = operations[o].home /\ operations'[o].revision = operations[o].revision
    BY <1>1
  <2>5. revision' \in Nat /\ revision' >= revision /\ generation' = generation /\ generation' \in Nat
    BY <1>0, <1>1 DEF Typed
  <2>6. Len(leases) <= Len(leases')
    BY <1>5 DEF Kept
  <2>. QED BY <2>2, <2>3, <2>4, <2>5, <2>6, <1>0, <1>5, <1>9, RequestsKeep
<1>12. OperationsKept'
  BY <1>1, <1>9, <1>10, <1>11 DEF OperationsKept
<1>13. Typed'
  BY <1>0, <1>1, <1>5, <1>8, ProbesStay DEF Typed, Kept
<1>14. Buffered'
  BY <1>1, ProbesStay
<1>. QED BY <1>8, <1>10, <1>12, <1>13, <1>14 DEF IInv, LeasesKept

(* begin_request keeps the invariant: its operation, then its owners.      *)
LEMMA BeginStep ==
    ASSUME IInv, NEW t \in Tasks, begin_request(t)
    PROVE  IInv'
<1>. DEFINE n == Len(leases) + 1
            m == Len(operations) + 1
            token == Began(t).token
            kind == "directives"
<1>0. Typed /\ LeasesKept /\ OperationsLinked /\ LeasesLinked
  BY DEF IInv, LeasesKept
<1>1. /\ t \in live
      /\ operations' = Began(t).operations /\ operation' = Began(t).operation
      /\ UNCHANGED <<generation, revision, live, now, ended, left, probe_buffers, probe>>
  BY Zenon DEF begin_request, probing
<1>2. PICK triggers \in Triggers : Bind(t, kind, token, triggers)
  <2>1. PICK request \in Requests, key \in TriggerKeys :
           Bind(t, kind, token, resolve_request_trigger_directives(request, key, now))
    BY Zenon DEF begin_request
  <2>2. resolve_request_trigger_directives(request, key, now) \in Triggers
    BY TriggersType, Zenon
  <2>. QED BY <2>1, <2>2, Zenon
<1>3. kind \in Kinds
  BY DEF Kinds
<1>. HIDE DEF kind
<1>4. \/ UNCHANGED <<operations, operation>> /\ token = 0
      \/ FreshOperation(t, m) /\ token = m
  BY <1>0, <1>1, BeganCases
<1>5. token \in Nat /\ Len(operations) \in Nat
  <2>1. Len(operations) \in Nat
    BY <1>0 DEF Typed
  <2>. HIDE DEF token
  <2>. QED BY <2>1, <1>4
<1>. HIDE DEF token
<1>6. Fresh(t, kind, token, n)
  BY <1>0, <1>2, <1>3, <1>5, BindAppends
<1>7. SameOperations(operations, operations') \/ FreshOperation(t, m)
  BY <1>0, <1>4, StoresStay
<1>8. /\ Kept /\ Len(leases) \in Nat
      /\ Len(leases') \in Nat /\ Len(operations') \in Nat
  BY <1>0, <1>3, <1>5, <1>6, <1>7, FreshKept
<1>9. Severed => Severed'
  BY <1>0, <1>8, SeveredStays
<1>10. current' = [current EXCEPT ![kind][t] = n]
  BY <1>2 DEF Bind
<1>11. LeasesKept' /\ current' \in [Kinds -> [Tasks -> Nat]] /\ ended' \subseteq 1 .. Len(leases')
  <2>1. Len(operations) <= Len(operations')
    BY <1>8 DEF Kept
  <2>2. token <= Len(operations')
    BY <1>4, <1>5, <1>8 DEF FreshOperation
  <2>. QED BY <2>1, <2>2, <1>0, <1>1, <1>3, <1>5, <1>6, <1>8, <1>9, <1>10, BindKeeps
<1>12. PICK b \in 0 .. Len(operations) : OperationsReached(b) /\ RequestOperations(b)
  BY DEF IInv, OperationsKept
<1>13. /\ OperationsLinked' /\ OperationsReached(b)' /\ operation' \in [Tasks -> Nat]
       /\ left' \subseteq 1 .. Len(operations')
  <2>1. CASE FreshOperation(t, m)
    BY <2>1, <1>0, <1>1, <1>9, <1>12, BeginKeeps
  <2>2. CASE UNCHANGED <<operations, operation>>
    <3>1. OperationsLinked' /\ OperationsReached(b)'
      BY <2>2, <1>0, <1>1, <1>9, <1>12, OperationsStay
    <3>. QED BY <3>1, <2>2, <1>0, <1>1 DEF Typed
  <2>. QED BY <2>1, <2>2, <1>4
<1>14. RequestOperations(b)'
  <2>1. \A l \in 1 .. Len(leases') : l > Len(leases) => l = n
    BY <1>6, <1>8 DEF Fresh
  <2>2. leases'[n].operation = token /\ leases'[n].home = t /\ leases'[n].generation = generation
    BY <1>6 DEF Fresh
  <2>3. token > b => operations'[token].home = t
    BY <1>4, <1>5, <1>12 DEF FreshOperation
  <2>4. \A l \in 1 .. Len(leases') : l > Len(leases) /\ leases'[l].operation > b =>
              /\ operations'[leases'[l].operation].home = leases'[l].home
              /\ leases'[l].generation = generation'
    BY <2>1, <2>2, <2>3, <1>1
  <2>5. \A l \in 1 .. Len(leases) :
              /\ leases'[l].operation = leases[l].operation /\ leases'[l].home = leases[l].home
              /\ leases'[l].generation = leases[l].generation
    BY <1>6 DEF Fresh
  <2>6. \A o \in 1 .. Len(operations) :
              operations'[o].home = operations[o].home /\ operations'[o].revision = operations[o].revision
    BY <1>7 DEF FreshOperation, SameOperations
  <2>7. revision' \in Nat /\ revision' >= revision /\ generation' = generation /\ generation' \in Nat
    BY <1>0, <1>1 DEF Typed
  <2>8. Len(leases) <= Len(leases')
    BY <1>8 DEF Kept
  <2>. QED BY <2>4, <2>5, <2>6, <2>7, <2>8, <1>0, <1>8, <1>12, RequestsKeep
<1>15. b \in 0 .. Len(operations')
  BY <1>5, <1>8 DEF Kept
<1>16. OperationsKept'
  BY <1>13, <1>14, <1>15 DEF OperationsKept
<1>17. Typed'
  BY <1>0, <1>1, <1>8, <1>11, <1>13, ProbesStay DEF Typed, Kept
<1>18. Buffered'
  BY <1>1, ProbesStay
<1>. QED BY <1>11, <1>13, <1>16, <1>17, <1>18 DEF IInv, LeasesKept

(* release keeps the invariant, on the owner's task or on another.         *)
LEMMA ReleaseStep ==
    ASSUME IInv, NEW t \in Tasks, NEW l \in DOMAIN leases, release(t, l)
    PROVE  IInv'
<1>. DEFINE o == leases[l].operation
<1>0. /\ Typed /\ LeasesKept /\ OperationsLinked /\ LeasesLinked /\ LeaseEras /\ Reached
      /\ leases \in Seq(Leases) /\ operations \in Seq(Operations)
      /\ l \in 1 .. Len(leases) /\ Len(leases) \in Nat /\ Len(operations) \in Nat
  BY DEF IInv, LeasesKept, Typed
<1>1. /\ t \in live
      /\ UNCHANGED <<generation, revision, live, now, probe_buffers, probe>>
  BY Zenon DEF release, probing
<1>2. /\ SameLeases(leases, leases') /\ l \notin ended
      /\ left' = IF leases[l].home = t THEN left \cup ({o} \ {0}) ELSE left
      /\ Found(t, l) => Revokes(t, l)
      /\ ~Found(t, l) => UNCHANGED <<leases, current, operations, operation>>
  BY <1>0, <1>1, ReleaseCases
<1>3. o \in 0 .. Len(operations) /\ leases[l].kind \in Kinds /\ leases[l].home \in Tasks
      /\ leases[l].generation \in Nat /\ leases[l].generation <= generation
  BY <1>0, LeaseFields DEF LeasesLinked, LeaseEras
<1>. HIDE DEF o
<1>4. SameOperations(operations, operations')
  <2>1. CASE Found(t, l)
    <3>1. operations' = Ended(t, o).operations /\ operation' = Ended(t, o).operation
      BY <2>1, <1>2 DEF Revokes, o
    <3>. QED BY <3>1, <1>0, <1>3, EndedCases
  <2>2. CASE ~Found(t, l)
    BY <2>2, <1>0, <1>2, StoresStay
  <2>. QED BY <2>1, <2>2
<1>5. /\ Kept /\ Len(leases') \in Nat /\ Len(operations') \in Nat
  BY <1>0, <1>2, <1>4, FreshKept
<1>6. Severed => Severed'
  BY <1>0, <1>5, SeveredStays
<1>7. LeasesKept' /\ current' \in [Kinds -> [Tasks -> Nat]] /\ ended' \subseteq 1 .. Len(leases')
  <2>1. Len(operations) <= Len(operations')
    BY <1>5 DEF Kept
  <2>. QED BY <2>1, <1>0, <1>1, <1>5, <1>6, ReleaseKeeps
<1>8. PICK b \in 0 .. Len(operations) : OperationsReached(b) /\ RequestOperations(b)
  BY DEF IInv, OperationsKept
<1>9. o > b => /\ operations[o].home = leases[l].home
               /\ leases[l].generation < generation => operations[o].revision < revision
  BY <1>0, <1>8 DEF RequestOperations, o
<1>10. left \subseteq 1 .. Len(operations) /\ left \subseteq left' /\ left' \subseteq left \cup {o}
       /\ left' \subseteq 1 .. Len(operations)
  <2>1. left \subseteq 1 .. Len(operations)
    BY <1>0 DEF Typed
  <2>2. o # 0 => o \in 1 .. Len(operations)
    BY <1>0, <1>3
  <2>. QED BY <2>1, <2>2, <1>2
<1>11. OperationsLinked' /\ OperationsReached(b)' /\ operation' \in [Tasks -> Nat]
  <2>1. CASE Found(t, l)
    <3>1. operations' = Ended(t, o).operations /\ operation' = Ended(t, o).operation
      BY <2>1, <1>2 DEF Revokes, o
    <3>2. o > b => o # 0
      BY <1>3, <1>8
    <3>3. o > b /\ operations[o].home = t => o \in left'
      BY <3>2, <1>2, <1>9
    <3>4. o \in left' /\ o > b /\ o \notin left => operations[o].home = t
      BY <1>2, <1>9
    <3>. QED BY <3>1, <3>3, <3>4, <1>0, <1>1, <1>3, <1>6, <1>8, <1>10, EndKeeps
  <2>2. CASE ~Found(t, l)
    <3>1. UNCHANGED <<operations, operation>>
      BY <2>2, <1>2
    <3>2. ASSUME NEW i \in left' \ left, i > b, operations[i].revision = revision
          PROVE  Severed'
      <4>. SUFFICES ASSUME ~Severed' PROVE FALSE
        OBVIOUS
      <4>1. i = o /\ leases[l].home = t
        BY <3>2, <1>2
      <4>2. leases[l].generation = generation
        <5>1. ~(operations[o].revision < revision)
          <6>1. revision \in Nat
            BY <1>0 DEF Typed
          <6>. QED BY <6>1, <3>2, <4>1
        <5>2. ~(leases[l].generation < generation)
          BY <5>1, <4>1, <3>2, <1>9
        <5>3. generation \in Nat
          BY <1>0 DEF Typed
        <5>. QED BY <5>2, <5>3, <1>3
      <4>3. l \in Members(leases, current[leases[l].kind][leases[l].home])
        BY <4>2, <1>0, <1>2, <1>6 DEF Reached
      <4>4. Found(t, l)
        BY <4>1, <4>3 DEF Found
      <4>. QED BY <4>4, <2>2
    <3>3. OperationsLinked' /\ OperationsReached(b)'
      BY <3>1, <3>2, <1>0, <1>1, <1>6, <1>8, <1>10, OperationsStay
    <3>. QED BY <3>1, <3>3, <1>0 DEF Typed
  <2>. QED BY <2>1, <2>2
<1>12. RequestOperations(b)'
  <2>1. /\ Len(leases') = Len(leases)
        /\ \A i \in 1 .. Len(leases) :
              /\ leases'[i].operation = leases[i].operation /\ leases'[i].home = leases[i].home
              /\ leases'[i].generation = leases[i].generation
    BY <1>2 DEF SameLeases
  <2>2. \A i \in 1 .. Len(operations) :
              operations'[i].home = operations[i].home /\ operations'[i].revision = operations[i].revision
    BY <1>4 DEF SameOperations
  <2>3. revision' \in Nat /\ revision' >= revision /\ generation' = generation /\ generation' \in Nat
    BY <1>0, <1>1 DEF Typed
  <2>4. \A i \in 1 .. Len(leases') : i > Len(leases) /\ leases'[i].operation > b =>
              /\ operations'[leases'[i].operation].home = leases'[i].home
              /\ leases'[i].generation = generation'
    BY <2>1, <1>0
  <2>5. Len(leases) <= Len(leases')
    BY <1>5 DEF Kept
  <2>. QED BY <2>1, <2>2, <2>3, <2>4, <2>5, <1>0, <1>5, <1>8, RequestsKeep
<1>13. Len(operations') = Len(operations)
  BY <1>4 DEF SameOperations
<1>14. OperationsKept'
  BY <1>8, <1>11, <1>12, <1>13 DEF OperationsKept
<1>15. Typed'
  BY <1>0, <1>1, <1>5, <1>7, <1>10, <1>11, <1>13, ProbesStay DEF Typed, Kept
<1>16. Buffered'
  BY <1>1, ProbesStay
<1>. QED BY <1>7, <1>11, <1>14, <1>15, <1>16 DEF IInv, LeasesKept

(* Steps that bind no lease.                                               *)
LEMMA RequestsStay ==
    ASSUME Typed, LeasesLinked, NEW b \in 0 .. Len(operations), OperationsReached(b),
           RequestOperations(b), leases' = leases, revision' \in Nat, revision' >= revision,
           generation' = generation \/ revision' > revision, generation' \in Nat,
           \A o \in 1 .. Len(operations) :
              operations'[o].home = operations[o].home /\ operations'[o].revision = operations[o].revision
    PROVE  RequestOperations(b)'
<1>1. Len(leases) \in Nat
  BY DEF Typed
<1>2. /\ Len(leases) <= Len(leases') /\ Len(leases') \in Nat
      /\ \A l \in 1 .. Len(leases) :
            /\ leases'[l].operation = leases[l].operation /\ leases'[l].home = leases[l].home
            /\ leases'[l].generation = leases[l].generation
      /\ \A l \in 1 .. Len(leases') : ~(l > Len(leases))
  BY <1>1
<1>3. \A l \in 1 .. Len(leases') : l > Len(leases) /\ leases'[l].operation > b =>
              /\ operations'[leases'[l].operation].home = leases'[l].home
              /\ leases'[l].generation = generation'
  BY <1>2
<1>. QED BY <1>2, <1>3, RequestsKeep

(* Entering OperationContexts.context keeps the invariant.                 *)
LEMMA EnterStep ==
    ASSUME IInv, NEW t \in Tasks, EnterOperation(t)
    PROVE  IInv'
<1>. DEFINE m == Len(operations) + 1
<1>0. /\ Typed /\ LeasesKept /\ OperationsLinked /\ LeasesLinked
      /\ Len(operations) \in Nat /\ revision \in Nat /\ generation \in Nat
  BY DEF IInv, LeasesKept, Typed
<1>1. /\ t \in live
      /\ operations' = Began(t).operations /\ operation' = Began(t).operation
      /\ UNCHANGED <<generation, revision, leases, current, live, now, ended, left,
                     probe_buffers, probe>>
  BY Zenon DEF EnterOperation, probing
<1>2. \/ UNCHANGED <<operations, operation>>
      \/ FreshOperation(t, m)
  BY <1>0, <1>1, BeganCases
<1>3. /\ SameLeases(leases, leases')
      /\ SameOperations(operations, operations') \/ FreshOperation(t, m)
  BY <1>0, <1>1, <1>2, StoresStay
<1>4. Kept /\ Len(leases') \in Nat /\ Len(operations') \in Nat /\ Len(operations) <= Len(operations')
  <2>1. Kept /\ Len(leases') \in Nat /\ Len(operations') \in Nat
    BY <1>0, <1>3, FreshKept
  <2>. QED BY <2>1 DEF Kept
<1>5. Severed => Severed'
  BY <1>0, <1>4, SeveredStays
<1>6. LeasesKept'
  BY <1>0, <1>1, <1>4, <1>5, LeasesStay
<1>7. PICK b \in 0 .. Len(operations) : OperationsReached(b) /\ RequestOperations(b)
  BY DEF IInv, OperationsKept
<1>8. /\ OperationsLinked' /\ OperationsReached(b)' /\ operation' \in [Tasks -> Nat]
      /\ left' \subseteq 1 .. Len(operations')
  <2>1. CASE FreshOperation(t, m)
    BY <2>1, <1>0, <1>1, <1>5, <1>7, BeginKeeps
  <2>2. CASE UNCHANGED <<operations, operation>>
    <3>1. OperationsLinked' /\ OperationsReached(b)'
      BY <2>2, <1>0, <1>1, <1>5, <1>7, OperationsStay
    <3>. QED BY <3>1, <2>2, <1>0, <1>1 DEF Typed
  <2>. QED BY <2>1, <2>2, <1>2
<1>9. RequestOperations(b)'
  <2>1. \A o \in 1 .. Len(operations) :
              operations'[o].home = operations[o].home /\ operations'[o].revision = operations[o].revision
    BY <1>3 DEF FreshOperation, SameOperations
  <2>2. revision' \in Nat /\ revision' >= revision /\ generation' = generation /\ generation' \in Nat
    BY <1>0, <1>1
  <2>. QED BY <2>1, <2>2, <1>0, <1>1, <1>7, RequestsStay
<1>10. b \in 0 .. Len(operations')
  BY <1>0, <1>4
<1>11. OperationsKept'
  BY <1>8, <1>9, <1>10 DEF OperationsKept
<1>12. Typed'
  BY <1>0, <1>1, <1>4, <1>8, ProbesStay DEF Typed, Kept
<1>13. Buffered'
  BY <1>1, ProbesStay
<1>. QED BY <1>6, <1>8, <1>11, <1>12, <1>13 DEF IInv, LeasesKept

(* Leaving OperationContexts.context keeps the invariant.                  *)
LEMMA LeaveStep ==
    ASSUME IInv, NEW t \in Tasks, NEW o \in DOMAIN operations, LeaveOperation(t, o)
    PROVE  IInv'
<1>0. /\ Typed /\ LeasesKept /\ OperationsLinked /\ LeasesLinked
      /\ o \in 1 .. Len(operations) /\ o \in 0 .. Len(operations) /\ left \subseteq 1 .. Len(operations)
      /\ Len(operations) \in Nat /\ revision \in Nat /\ generation \in Nat
  BY DEF IInv, LeasesKept, Typed
<1>1. /\ t \in live
      /\ operations' = Ended(t, o).operations /\ operation' = Ended(t, o).operation
      /\ left' = IF operations[o].home = t THEN left \cup {o} ELSE left
      /\ UNCHANGED <<generation, revision, leases, current, live, now, ended,
                     probe_buffers, probe>>
  BY Zenon DEF LeaveOperation, probing
<1>2. SameLeases(leases, leases') /\ SameOperations(operations, operations')
  BY <1>0, <1>1, StoresStay, EndedCases
<1>3. Kept /\ Len(leases') \in Nat /\ Len(operations') \in Nat /\ Len(operations) <= Len(operations')
  <2>1. Kept /\ Len(leases') \in Nat /\ Len(operations') \in Nat
    BY <1>0, <1>2, FreshKept
  <2>. QED BY <2>1 DEF Kept
<1>4. Severed => Severed'
  BY <1>0, <1>3, SeveredStays
<1>5. LeasesKept'
  BY <1>0, <1>1, <1>3, <1>4, LeasesStay
<1>6. PICK b \in 0 .. Len(operations) : OperationsReached(b) /\ RequestOperations(b)
  BY DEF IInv, OperationsKept
<1>7. OperationsLinked' /\ OperationsReached(b)' /\ operation' \in [Tasks -> Nat]
  <2>1. /\ left \subseteq left' /\ left' \subseteq left \cup {o}
        /\ o > b /\ operations[o].home = t => o \in left'
        /\ o \in left' /\ o > b /\ o \notin left => operations[o].home = t
    BY <1>1
  <2>. QED BY <2>1, <1>0, <1>1, <1>4, <1>6, EndKeeps
<1>8. /\ Len(operations') = Len(operations)
      /\ \A i \in 1 .. Len(operations) :
            operations'[i].home = operations[i].home /\ operations'[i].revision = operations[i].revision
  BY <1>2 DEF SameOperations
<1>9. RequestOperations(b)'
  <2>1. revision' \in Nat /\ revision' >= revision /\ generation' = generation /\ generation' \in Nat
    BY <1>0, <1>1
  <2>. QED BY <2>1, <1>0, <1>1, <1>6, <1>8, RequestsStay
<1>10. OperationsKept'
  BY <1>6, <1>7, <1>8, <1>9 DEF OperationsKept
<1>11. left' \subseteq 1 .. Len(operations')
  BY <1>0, <1>1, <1>8
<1>12. Typed'
  BY <1>0, <1>1, <1>3, <1>7, <1>11, ProbesStay DEF Typed, Kept
<1>13. Buffered'
  BY <1>1, ProbesStay
<1>. QED BY <1>5, <1>7, <1>10, <1>12, <1>13 DEF IInv, LeasesKept

(* A new task, started in a copy of the context, keeps the invariant.      *)
LEMMA SpawnStep ==
    ASSUME IInv, NEW t \in Tasks, NEW u \in Tasks, Spawn(t, u)
    PROVE  IInv'
<1>0. /\ Typed /\ LeasesKept /\ OperationsLinked /\ LeasesLinked
      /\ Len(operations) \in Nat /\ revision \in Nat /\ generation \in Nat
  BY DEF IInv, LeasesKept, Typed
<1>1. /\ t \in live /\ u \in Tasks \ live /\ live' = live \cup {u}
      /\ current' = [k \in Kinds |-> [current[k] EXCEPT ![u] = current[k][t]]]
      /\ operation' = [operation EXCEPT ![u] = operation[t]]
      /\ UNCHANGED <<generation, revision, leases, operations, now, ended, left,
                     probe_buffers, probe>>
  BY DEF Spawn, probing
<1>2. SameLeases(leases, leases') /\ SameOperations(operations, operations')
  BY <1>0, <1>1, StoresStay
<1>3. Kept
  BY <1>0, <1>2, FreshKept
<1>4. Severed => Severed'
  BY <1>0, <1>3, SeveredStays
<1>5. LeasesKept' /\ current' \in [Kinds -> [Tasks -> Nat]]
  BY <1>0, <1>1, <1>4, SpawnKeeps
<1>6. PICK b \in 0 .. Len(operations) : OperationsReached(b) /\ RequestOperations(b)
  BY DEF IInv, OperationsKept
<1>7. OperationsLinked' /\ OperationsReached(b)' /\ operation' \in [Tasks -> Nat]
  BY <1>0, <1>1, <1>4, <1>6, OperationsSpawn
<1>8. RequestOperations(b)'
  <2>1. revision' \in Nat /\ revision' >= revision /\ generation' = generation /\ generation' \in Nat
    BY <1>0, <1>1
  <2>2. \A i \in 1 .. Len(operations) :
            operations'[i].home = operations[i].home /\ operations'[i].revision = operations[i].revision
    BY <1>1
  <2>. QED BY <2>1, <2>2, <1>0, <1>1, <1>6, RequestsStay
<1>9. OperationsKept'
  BY <1>1, <1>6, <1>7, <1>8 DEF OperationsKept
<1>10. Typed'
  BY <1>0, <1>1, <1>5, <1>7, ProbesStay DEF Typed
<1>11. Buffered'
  BY <1>1, ProbesStay
<1>. QED BY <1>5, <1>7, <1>9, <1>10, <1>11 DEF IInv, LeasesKept

(* init keeps the invariant: the leases of earlier generations are past.   *)
LEMMA InitStep ==
    ASSUME IInv, init
    PROVE  IInv'
<1>0. /\ Typed /\ LeasesKept /\ OperationsLinked /\ LeasesLinked
      /\ Len(operations) \in Nat /\ revision \in Nat /\ generation \in Nat
      /\ generation \in 1 .. MaxGeneration
  BY DEF IInv, LeasesKept, Typed
<1>1. /\ generation' = generation + 1 /\ revision' = revision + 1 /\ generation < MaxGeneration
      /\ probe_buffers' = {}
      /\ UNCHANGED <<leases, operations, current, operation, ended, left, live, now, probe>>
  BY DEF init, scopes
<1>2. LeasesKept' /\ current' \in [Kinds -> [Tasks -> Nat]]
  BY <1>0, <1>1, GenerationKeeps
<1>3. PICK b \in 0 .. Len(operations) : OperationsReached(b) /\ RequestOperations(b)
  BY DEF IInv, OperationsKept
<1>4. OperationsLinked' /\ OperationsReached(b)'
  BY <1>0, <1>1, <1>3, OperationsRevision
<1>5. RequestOperations(b)'
  <2>1. revision' \in Nat /\ revision' >= revision /\ revision' > revision /\ generation' \in Nat
    BY <1>0, <1>1
  <2>2. \A i \in 1 .. Len(operations) :
            operations'[i].home = operations[i].home /\ operations'[i].revision = operations[i].revision
    BY <1>1
  <2>. QED BY <2>1, <2>2, <1>0, <1>1, <1>3, RequestsStay
<1>6. OperationsKept'
  BY <1>1, <1>3, <1>4, <1>5 DEF OperationsKept
<1>7. generation' \in 1 .. MaxGeneration
  BY <1>0, <1>1, ScopesAssumption
<1>8. Typed'
  BY <1>0, <1>1, <1>2, <1>7 DEF Typed
<1>9. Buffered'
  BY <1>1, FS_EmptySet, ScopesAssumption DEF Buffered
<1>. QED BY <1>2, <1>4, <1>6, <1>8, <1>9 DEF IInv, LeasesKept

(* dispose keeps the invariant, as init does.                              *)
LEMMA DisposeStep ==
    ASSUME IInv, dispose
    PROVE  IInv'
<1>0. /\ Typed /\ LeasesKept /\ OperationsLinked /\ LeasesLinked
      /\ Len(operations) \in Nat /\ revision \in Nat /\ generation \in Nat
  BY DEF IInv, LeasesKept, Typed
<1>1. /\ revision' = revision + 1
      /\ UNCHANGED <<generation, leases, operations, current, operation, ended, left, live, now,
                     probe_buffers, probe>>
  BY DEF dispose, scopes, probing
<1>2. SameLeases(leases, leases') /\ SameOperations(operations, operations')
  BY <1>0, <1>1, StoresStay
<1>3. Kept
  BY <1>0, <1>2, FreshKept
<1>4. Severed => Severed'
  BY <1>0, <1>3, SeveredStays
<1>5. LeasesKept'
  <2>1. Len(operations) <= Len(operations') /\ Len(operations') \in Nat
    BY <1>0, <1>1
  <2>. QED BY <2>1, <1>0, <1>1, <1>4, LeasesStay
<1>6. PICK b \in 0 .. Len(operations) : OperationsReached(b) /\ RequestOperations(b)
  BY DEF IInv, OperationsKept
<1>7. OperationsLinked' /\ OperationsReached(b)'
  BY <1>0, <1>1, <1>6, OperationsRevision
<1>8. RequestOperations(b)'
  <2>1. revision' \in Nat /\ revision' >= revision /\ revision' > revision /\ generation' \in Nat
    BY <1>0, <1>1
  <2>2. \A i \in 1 .. Len(operations) :
            operations'[i].home = operations[i].home /\ operations'[i].revision = operations[i].revision
    BY <1>1
  <2>. QED BY <2>1, <2>2, <1>0, <1>1, <1>6, RequestsStay
<1>9. OperationsKept'
  BY <1>1, <1>6, <1>7, <1>8 DEF OperationsKept
<1>10. Typed'
  BY <1>0, <1>1, ProbesStay DEF Typed
<1>11. Buffered'
  BY <1>1, ProbesStay
<1>. QED BY <1>5, <1>7, <1>9, <1>10, <1>11 DEF IInv, LeasesKept

(* A fork keeps the invariant: the operations begun so far become those up *)
(* to the base, and none is read.                                          *)
LEMMA ForkStep ==
    ASSUME IInv, NEW t \in Tasks, fork(t)
    PROVE  IInv'
<1>0. /\ Typed /\ LeasesKept /\ OperationsLinked /\ LeasesLinked
      /\ leases \in Seq(Leases) /\ Len(operations) \in Nat /\ revision \in Nat
      /\ generation \in Nat /\ generation \in 1 .. MaxGeneration
  BY DEF IInv, LeasesKept, Typed
<1>1. /\ generation' = generation + 1 /\ revision' = 0 /\ generation < MaxGeneration
      /\ live' = {t} /\ probe_buffers' = {}
      /\ current' = [k \in Kinds |-> [u \in Tasks |-> 0]] /\ operation' = [u \in Tasks |-> 0]
      /\ probe' = [u \in Tasks |-> NoProbe]
      /\ UNCHANGED <<leases, operations, now, ended, left>>
  BY DEF fork
<1>2. LeasesKept' /\ current' \in [Kinds -> [Tasks -> Nat]]
  BY <1>0, <1>1, GenerationKeeps
<1>. DEFINE b == Len(operations)
<1>3. OperationsLinked' /\ operation' \in [Tasks -> Nat] /\ OperationsReached(b)'
  BY <1>0, <1>1, OperationsFork
<1>4. RequestOperations(b)'
  <2>1. \A l \in 1 .. Len(leases) : leases[l].operation \in Nat /\ leases[l].operation <= b
    BY <1>0, LeaseFields DEF LeasesLinked
  <2>2. \A l \in 1 .. Len(leases) : ~(leases[l].operation > b)
    <3>. HIDE DEF b
    <3>1. b \in Nat
      BY <1>0 DEF b
    <3>. QED BY <2>1, <3>1
  <2>. QED BY <2>2, <1>1 DEF RequestOperations
<1>5. OperationsKept'
  <2>1. b \in 0 .. Len(operations')
    BY <1>0, <1>1
  <2>2. b' = b
    BY <1>1
  <2>. HIDE DEF b
  <2>. QED BY <2>1, <2>2, <1>3, <1>4 DEF OperationsKept
<1>6. generation' \in 1 .. MaxGeneration /\ revision' \in Nat
  BY <1>0, <1>1, ScopesAssumption
<1>7. DOMAIN probe' = Tasks /\ \A u \in Tasks : probe'[u].pc # "prepared"
  BY <1>1 DEF NoProbe
<1>8. Typed'
  BY <1>0, <1>1, <1>2, <1>3, <1>6, <1>7 DEF Typed
<1>9. Buffered'
  BY <1>1, FS_EmptySet, ScopesAssumption DEF Buffered
<1>. QED BY <1>2, <1>3, <1>5, <1>8, <1>9 DEF IInv, LeasesKept

(* Steps of the configuration, the clock and the probes.                   *)
LEMMA ScopesStay ==
    ASSUME IInv, UNCHANGED <<generation, revision, scopes, live>>, Typed', Buffered'
    PROVE  IInv'
<1>1. UNCHANGED <<leases, operations, current, operation, ended, left>>
  BY DEF scopes
<1>2. LeasesLinked'
  BY <1>1 DEF IInv, LeasesLinked, Linked, Members, Chain
<1>3. OperationsLinked'
  BY <1>1 DEF IInv, OperationsLinked, Linked, Members, Chain
<1>4. LeaseEras'
  BY <1>1 DEF IInv, LeaseEras, Members, Chain
<1>5. Copied'
  BY <1>1 DEF IInv, Copied, Foreign, Members, Chain
<1>6. Severed' = Severed
  BY <1>1 DEF Severed
<1>7. Reached'
  BY <1>1, <1>6 DEF IInv, Reached, Members, Chain
<1>8. OperationsKept'
  <2>1. PICK b \in 0 .. Len(operations) : OperationsReached(b) /\ RequestOperations(b)
    BY DEF IInv, OperationsKept
  <2>2. Typed /\ OperationsLinked
    BY DEF IInv
  <2>3. OperationsReached(b)'
    BY <2>1, <2>2, <1>1, <1>6, OperationsStay
  <2>4. RequestOperations(b)'
    BY <2>1, <1>1 DEF RequestOperations
  <2>. QED BY <2>1, <2>3, <2>4, <1>1 DEF OperationsKept
<1>. QED BY <1>2, <1>3, <1>4, <1>5, <1>7, <1>8 DEF IInv

(* A new remote configuration or the clock disturbs no owner.              *)
LEMMA ConfigureStep ==
    ASSUME IInv, Configure \/ Tick
    PROVE  IInv'
<1>1. /\ UNCHANGED <<generation, revision, scopes, live, probe_buffers, probe>>
      /\ now' = now \/ (now < MaxTime /\ now' = now + 1)
  BY Zenon DEF Configure, Tick, probing
<1>2. now \in 0 .. MaxTime /\ MaxTime \in Nat
  BY ScopesAssumption DEF IInv, Typed
<1>3. now' \in 0 .. MaxTime
  BY <1>1, <1>2
<1>4. Typed'
  BY <1>1, <1>3 DEF IInv, Typed, scopes
<1>5. Buffered'
  BY <1>1 DEF IInv, Buffered
<1>. QED BY <1>1, <1>4, <1>5, ScopesStay

(* Admitting a probe keeps the buffers within their limit.                 *)
LEMMA AdmitStep ==
    ASSUME IInv, NEW t \in Tasks, NEW label \in Labels, NEW heavy \in BOOLEAN,
           AdmitProbe(t, label, heavy)
    PROVE  IInv'
<1>. DEFINE matching == find_matching_probe_directives(t, label)
            e == [pc |-> "prepared", label |-> label, heavy |-> heavy,
                  prepared |-> matching, generation |-> generation]
<1>1. /\ probe' = [probe EXCEPT ![t] = e]
      /\ UNCHANGED <<generation, revision, scopes, live, now, probe_buffers>>
  BY Zenon DEF AdmitProbe
<1>2. e.label \in Labels
  OBVIOUS
<1>. HIDE DEF e
<1>3. DOMAIN probe' = Tasks /\ \A u \in Tasks : probe'[u].pc = "prepared" => probe'[u].label \in Labels
  BY <1>1, <1>2 DEF IInv, Typed
<1>4. Typed'
  BY <1>1, <1>3 DEF IInv, Typed, scopes
<1>5. Buffered'
  BY <1>1 DEF IInv, Buffered
<1>. QED BY <1>1, <1>4, <1>5, ScopesStay

(* Committing a probe disturbs no owner.                                   *)
LEMMA CommitStep ==
    ASSUME IInv, NEW t \in Tasks, CommitProbe(t)
    PROVE  IInv'
<1>0. Typed /\ Buffered /\ MaxLabels \in Nat
  BY ScopesAssumption DEF IInv
<1>. DEFINE label == probe[t].label
<1>1. /\ probe[t].pc = "prepared" /\ probe' = [probe EXCEPT ![t] = NoProbe]
      /\ probe_buffers' = IF Accepted(t) /\ ~probe[t].heavy THEN probe_buffers \cup {label}
                          ELSE probe_buffers
      /\ UNCHANGED <<generation, revision, scopes, live, now>>
  BY Zenon DEF CommitProbe
<1>2. label \in Labels
  BY <1>0, <1>1 DEF Typed
<1>3. DOMAIN probe' = Tasks /\ \A u \in Tasks : probe'[u].pc = "prepared" => probe'[u].label \in Labels
  BY <1>0, <1>1 DEF Typed, NoProbe
<1>4. Typed'
  BY <1>0, <1>1, <1>2, <1>3 DEF Typed, scopes
<1>5. Accepted(t) => label \in probe_buffers \/ Cardinality(probe_buffers) < MaxLabels
  BY DEF Accepted, Room
<1>. HIDE DEF label
<1>6. Buffered'
  <2>1. CASE probe_buffers' = probe_buffers
    BY <2>1, <1>0 DEF Buffered
  <2>2. CASE probe_buffers' # probe_buffers
    <3>1. /\ probe_buffers' = probe_buffers \cup {label} /\ label \notin probe_buffers
          /\ Cardinality(probe_buffers) < MaxLabels
      BY <2>2, <1>1, <1>5
    <3>2. IsFiniteSet(probe_buffers)
      BY <1>0 DEF Buffered
    <3>3. /\ IsFiniteSet(probe_buffers \cup {label})
          /\ Cardinality(probe_buffers \cup {label}) = Cardinality(probe_buffers) + 1
          /\ Cardinality(probe_buffers) \in Nat
      BY <3>1, <3>2, FS_AddElement, FS_CardinalityType
    <3>. QED BY <3>1, <3>3, <1>0 DEF Buffered
  <2>. QED BY <2>1, <2>2
<1>. QED BY <1>1, <1>4, <1>6, ScopesStay

(* The initial states satisfy the invariant.                               *)
LEMMA Starts ==
    ASSUME Init
    PROVE  IInv
<1>0. /\ generation = 1 /\ revision = 1 /\ leases = <<>> /\ operations = <<>>
      /\ current = [k \in Kinds |-> [t \in Tasks |-> 0]] /\ operation = [t \in Tasks |-> 0]
      /\ live = {Root} /\ now = 0 /\ probe_buffers = {} /\ probe = [t \in Tasks |-> NoProbe]
      /\ ended = {} /\ left = {}
  BY DEF Init
<1>1. leases \in Seq(Leases) /\ operations \in Seq(Operations) /\ Len(leases) = 0 /\ Len(operations) = 0
  BY <1>0
<1>2. /\ current \in [Kinds -> [Tasks -> Nat]] /\ \A k \in Kinds, t \in Tasks : current[k][t] = 0
      /\ operation \in [Tasks -> Nat] /\ \A t \in Tasks : operation[t] = 0
  BY <1>0
<1>3. Typed
  <2>1. DOMAIN probe = Tasks /\ \A t \in Tasks : probe[t].pc # "prepared"
    BY <1>0 DEF NoProbe
  <2>2. generation \in 1 .. MaxGeneration /\ now \in 0 .. MaxTime /\ live \subseteq Tasks
    BY <1>0, ScopesAssumption
  <2>. QED BY <2>1, <2>2, <1>0, <1>1, <1>2 DEF Typed
<1>4. LeasesLinked /\ OperationsLinked /\ LeaseEras /\ Copied /\ Reached
  BY <1>1, <1>2 DEF LeasesLinked, OperationsLinked, LeaseEras, Copied, Reached
<1>5. OperationsReached(0) /\ RequestOperations(0)
  BY <1>1, <1>2 DEF OperationsReached, RequestOperations
<1>6. OperationsKept
  BY <1>1, <1>5 DEF OperationsKept
<1>7. Buffered
  BY <1>0, FS_EmptySet, ScopesAssumption DEF Buffered
<1>. QED BY <1>3, <1>4, <1>6, <1>7 DEF IInv

(* Every step keeps the invariant, action by action.                       *)
LEMMA Steps ==
    ASSUME IInv, [Next]_vars
    PROVE  IInv'
<1>1. CASE UNCHANGED vars
  <2>1. UNCHANGED <<generation, revision, scopes, live, now, probe_buffers, probe>>
    BY <1>1 DEF vars, scopes
  <2>2. Typed' /\ Buffered'
    BY <2>1 DEF IInv, Typed, Buffered, scopes
  <2>. QED BY <2>1, <2>2, ScopesStay
<1>2. ASSUME NEW t \in Tasks, Scope(t) PROVE IInv'
  <2>1. CASE bind_context(t)
    BY <2>1, BindStep
  <2>2. CASE begin_request(t)
    BY <2>2, BeginStep
  <2>3. CASE \E l \in DOMAIN leases : release(t, l)
    BY <2>3, ReleaseStep
  <2>4. CASE EnterOperation(t)
    BY <2>4, EnterStep
  <2>5. CASE \E o \in DOMAIN operations : LeaveOperation(t, o)
    BY <2>5, LeaveStep
  <2>6. CASE \E u \in Tasks : Spawn(t, u)
    BY <2>6, SpawnStep
  <2>. QED BY <1>2, <2>1, <2>2, <2>3, <2>4, <2>5, <2>6 DEF Scope
<1>3. CASE init
  BY <1>3, InitStep
<1>4. CASE dispose
  BY <1>4, DisposeStep
<1>5. CASE \E t \in Tasks : fork(t)
  BY <1>5, ForkStep
<1>6. CASE Configure \/ Tick
  BY <1>6, ConfigureStep
<1>7. CASE \E t \in Tasks, label \in Labels, heavy \in BOOLEAN : AdmitProbe(t, label, heavy)
  BY <1>7, AdmitStep
<1>8. CASE \E t \in Tasks : CommitProbe(t)
  BY <1>8, CommitStep
<1>. QED BY <1>1, <1>2, <1>3, <1>4, <1>5, <1>6, <1>7, <1>8 DEF Next

(* The inductive invariant holds in every behaviour.                       *)
LEMMA Invariant == Spec => []IInv
<1>1. Init => IInv
  BY Starts
<1>2. IInv /\ [Next]_vars => IInv'
  BY Steps
<1>. QED BY <1>1, <1>2, PTL DEF Spec

-----------------------------------------------------------------------------
(* An owner that reads, with those around it, has not ended.               *)
LEMMA AliveNotEnded ==
    ASSUME IInv, NEW v \in 0 .. Len(leases), alive(v)
    PROVE  /\ v \in 1 .. Len(leases) /\ v \in Members(leases, v)
           /\ Members(leases, v) = ToSet(leases[v].chain)
           /\ Members(leases, v) \subseteq 1 .. Len(leases)
           /\ \A m \in Members(leases, v) : leases[m].active /\ leases[m].generation = generation
           /\ ~Severed => Members(leases, v) \cap ended = {}
<1>0. leases \in Seq(Leases) /\ Len(leases) \in Nat /\ LeasesLinked /\ Reached
  BY DEF IInv, Typed
<1>1. v # 0 /\ \A m \in ToSet(leases[v].chain) : leases[m].active /\ leases[m].generation = generation
  BY DEF alive
<1>2. v \in 1 .. Len(leases) /\ v \in Nat \ {0}
  BY <1>0, <1>1
<1>3. Members(leases, v) = ToSet(leases[v].chain)
  BY <1>1 DEF Members, Chain
<1>4. v \in Members(leases, v) /\ Members(leases, v) \subseteq 1 .. v
  BY <1>0, <1>2, LeaseFields, OwnMember DEF LeasesLinked
<1>5. \A m \in Members(leases, v) : m \in 1 .. Len(leases)
  BY <1>0, <1>2, <1>4
<1>6. ~Severed => \A m \in Members(leases, v) : m \notin ended
  BY <1>0, <1>1, <1>3, <1>5 DEF Reached
<1>. QED BY <1>1, <1>2, <1>3, <1>4, <1>5, <1>6

(* The largest of numbers with a bound.                                    *)
LEMMA MaxIs ==
    ASSUME NEW S \in SUBSET Nat, NEW m \in S, \A x \in S : x <= m
    PROVE  Max(S) = m
<1>1. m \in S /\ \A x \in S : m >= x
  OBVIOUS
<1>2. \A y \in S : (\A x \in S : y >= x) => y = m
  OBVIOUS
<1>. QED BY <1>1, <1>2 DEF Max

(* A nonempty set of numbers with a bound has a largest one.               *)
LEMMA MaxExists ==
    ASSUME NEW n \in Nat, NEW S \in SUBSET (1 .. n), S # {}
    PROVE  Max(S) \in S /\ \A x \in S : x <= Max(S)
<1>. DEFINE T == {n - x : x \in S}
<1>1. T \in SUBSET Nat /\ T # {}
  <2>1. ASSUME NEW x \in S PROVE n - x \in Nat
    <3>1. x \in 1 .. n
      OBVIOUS
    <3>. QED BY <3>1
  <2>2. PICK x \in S : TRUE
    OBVIOUS
  <2>3. n - x \in T
    BY <2>2, Zenon
  <2>4. ASSUME NEW y \in T PROVE y \in Nat
    BY <2>1, Zenon
  <2>. HIDE DEF T
  <2>. QED BY <2>3, <2>4
<1>2. PICK d \in T : \A e \in T : d <= e
  <2>. HIDE DEF T
  <2>. QED BY <1>1, LeastNatural
<1>3. PICK m \in S : d = n - m
  BY <1>2
<1>4. \A x \in S : x <= m
  <2>. SUFFICES ASSUME NEW x \in S PROVE x <= m
    OBVIOUS
  <2>1. n - m <= n - x
    BY <1>2, <1>3
  <2>2. x \in Nat /\ m \in Nat
    OBVIOUS
  <2>. QED BY <2>1, <2>2
<1>5. S \in SUBSET Nat
  OBVIOUS
<1>6. Max(S) = m
  BY <1>4, <1>5, MaxIs
<1>. QED BY <1>4, <1>6

(***************************************************************************)
(* Every variable has its type, and no chain is longer than the loops over *)
(* the parents follow it (bind_context, OperationContexts.begin).          *)
(***************************************************************************)
THEOREM TypeCorrect == Spec => []TypeOK
<1>1. IInv => TypeOK
  <2>. SUFFICES ASSUME IInv PROVE TypeOK
    OBVIOUS
  <2>0. /\ Typed /\ LeasesLinked /\ OperationsLinked /\ leases \in Seq(Leases)
        /\ operations \in Seq(Operations) /\ Len(leases) \in Nat /\ Len(operations) \in Nat
        /\ DOMAIN leases = 1 .. Len(leases) /\ DOMAIN operations = 1 .. Len(operations)
    BY DEF IInv, Typed
  <2>1. ASSUME NEW l \in DOMAIN leases
        PROVE  /\ leases[l].kind \in Kinds /\ leases[l].active \in BOOLEAN
               /\ leases[l].operation \in 0 .. Len(operations) /\ leases[l].old \in 0 .. l - 1
               /\ leases[l].chain[1] = l /\ Len(leases[l].chain) <= Depth
    <3>0. l \in 1 .. Len(leases)
      BY <2>0
    <3>1. /\ leases[l].kind \in Kinds /\ leases[l].active \in BOOLEAN
          /\ leases[l].operation \in Nat /\ leases[l].old \in Nat
      BY <3>0, <2>0, LeaseFields
    <3>2. /\ leases[l].old < l /\ leases[l].chain[1] = l
          /\ Len(leases[l].chain) <= Depth /\ leases[l].operation <= Len(operations)
      BY <3>0, <2>0 DEF LeasesLinked, Linked
    <3>3. leases[l].operation \in 0 .. Len(operations) /\ leases[l].old \in 0 .. l - 1
      BY <3>0, <3>1, <3>2, <2>0
    <3>. QED BY <3>1, <3>2, <3>3
  <2>2. ASSUME NEW o \in DOMAIN operations
        PROVE  operations[o].chain[1] = o /\ Len(operations[o].chain) < Depth
    BY <2>0 DEF OperationsLinked, Linked
  <2>3. \A k \in Kinds, t \in Tasks : current[k][t] \in 0 .. Len(leases)
    BY <2>0 DEF Typed, LeasesLinked
  <2>4. \A t \in Tasks : operation[t] \in 0 .. Len(operations)
    BY <2>0 DEF Typed, OperationsLinked
  <2>. QED BY <2>0, <2>1, <2>2, <2>3, <2>4 DEF TypeOK, Typed
<1>. QED BY <1>1, Invariant, PTL

(***************************************************************************)
(* A completed owner, or operation, revokes every copy of it, unless some  *)
(* task bound on top of a dead one (release, OperationContexts.end).       *)
(***************************************************************************)
THEOREM CopiesRevoked == Spec => []EndedRevoked
<1>1. IInv => EndedRevoked
  <2>. SUFFICES ASSUME IInv, ~Severed, NEW t \in live
                PROVE  /\ \A k \in Kinds : alive(current[k][t]) =>
                             ToSet(leases[current[k][t]].chain) \cap ended = {}
                       /\ current_operation(t) # 0 =>
                             ToSet(operations[current_operation(t)].chain) \cap left = {}
    BY DEF EndedRevoked
  <2>0. /\ Typed /\ LeasesLinked /\ OperationsLinked /\ OperationsKept /\ t \in Tasks
        /\ Len(leases) \in Nat /\ Len(operations) \in Nat
    BY DEF IInv, Typed
  <2>1. ASSUME NEW k \in Kinds, alive(current[k][t])
        PROVE  ToSet(leases[current[k][t]].chain) \cap ended = {}
    <3>1. current[k][t] \in 0 .. Len(leases)
      BY <2>0 DEF Typed, LeasesLinked
    <3>. QED BY <3>1, <2>1, AliveNotEnded
  <2>2. ASSUME current_operation(t) # 0
        PROVE  ToSet(operations[current_operation(t)].chain) \cap left = {}
    <3>. DEFINE o == operation[t]
    <3>1. /\ current_operation(t) = o /\ o \in 1 .. Len(operations)
          /\ \A m \in Members(operations, o) : operations[m].active /\ operations[m].revision = revision
          /\ Members(operations, o) \subseteq 1 .. o
      BY <2>0, <2>2, CurrentChain
    <3>2. PICK b \in 0 .. Len(operations) : OperationsReached(b)
      BY <2>0 DEF OperationsKept
    <3>3. o > b
      BY <3>1, <3>2, <2>0 DEF OperationsReached
    <3>. HIDE DEF o
    <3>4. \A m \in Members(operations, o) : m > b
      BY <3>1, <3>2, <3>3 DEF OperationsReached
    <3>5. \A m \in Members(operations, o) : m \in 1 .. Len(operations)
      BY <3>1, <2>0
    <3>6. \A m \in Members(operations, o) : m \notin left
      BY <3>1, <3>2, <3>4, <3>5 DEF OperationsReached
    <3>7. Members(operations, o) = ToSet(operations[o].chain)
      BY <3>1 DEF Members, Chain
    <3>. QED BY <3>1, <3>6, <3>7
  <2>. QED BY <2>1, <2>2
<1>. QED BY <1>1, Invariant, PTL

(***************************************************************************)
(* No completion hides or uncovers the wrong owner: a task reads the owner *)
(* it bound last while that has not ended, and none of its own but the     *)
(* newest it has not released (alive, release).                            *)
(***************************************************************************)
THEOREM NewestRead == Spec => []NewestOwnerRead
<1>1. IInv => NewestOwnerRead
  <2>. SUFFICES ASSUME IInv, ~Severed, NEW t \in live, NEW k \in Kinds
                PROVE  LET owned == {l \in DOMAIN leases : leases[l].kind = k /\ leases[l].home = t}
                           newest == Max(owned)
                           value == current[k][t]
                       IN  /\ /\ owned # {} /\ leases[newest].generation = generation
                              /\ ToSet(leases[newest].chain) \cap ended = {}
                              => value = newest /\ (Len(leases[newest].chain) < Depth => alive(newest))
                           /\ value \in owned /\ alive(value) => value = Max(owned \ ended)
    BY DEF NewestOwnerRead
  <2>. DEFINE owned == {l \in DOMAIN leases : leases[l].kind = k /\ leases[l].home = t}
              newest == Max(owned)
              value == current[k][t]
  <2>0. /\ Typed /\ LeasesLinked /\ LeaseEras /\ Copied /\ Reached /\ t \in Tasks
        /\ leases \in Seq(Leases) /\ Len(leases) \in Nat /\ DOMAIN leases = 1 .. Len(leases)
        /\ generation \in Nat
    BY DEF IInv, Typed
  <2>1. value \in 0 .. Len(leases) /\ (value # 0 => leases[value].kind = k)
    BY <2>0 DEF Typed, LeasesLinked
  <2>2. /\ owned \in SUBSET (1 .. Len(leases))
        /\ \A l \in owned : l \in 1 .. Len(leases) /\ leases[l].kind = k /\ leases[l].home = t
        /\ \A l \in 1 .. Len(leases) : leases[l].kind = k /\ leases[l].home = t => l \in owned
    BY <2>0
  <2>3. Members(leases, 0) = {}
    BY DEF Members, Chain, ToSet
  <2>4. ASSUME NEW l \in 1 .. Len(leases)
        PROVE  /\ l \in Members(leases, l) /\ Members(leases, l) = ToSet(leases[l].chain)
               /\ Members(leases, l) \subseteq 1 .. l
    <3>1. Linked(leases, l) /\ leases[l].chain \in Seq(Nat) /\ l \in Nat \ {0}
      BY <2>0, LeaseFields DEF LeasesLinked
    <3>. QED BY <3>1, OwnMember DEF Members, Chain
  <2>5. ASSUME NEW l \in owned, l \notin ended, leases[l].generation = generation
        PROVE  l \in Members(leases, value) /\ value \in 1 .. Len(leases)
    <3>1. l \in Members(leases, value)
      BY <2>0, <2>2, <2>5 DEF Reached
    <3>. QED BY <3>1, <2>1, <2>3
  <2>. HIDE DEF owned, value
  <2>6. ASSUME owned # {}, leases[newest].generation = generation,
               ToSet(leases[newest].chain) \cap ended = {}
        PROVE  value = newest /\ (Len(leases[newest].chain) < Depth => alive(newest))
    <3>1. newest \in owned /\ \A l \in owned : l <= newest
      BY <2>0, <2>2, <2>6, MaxExists
    <3>. HIDE DEF newest
    <3>2. newest \in 1 .. Len(leases) /\ leases[newest].home = t
      BY <3>1, <2>2
    <3>3. newest \notin ended
      BY <3>2, <2>4, <2>6
    <3>4. newest \in Members(leases, value) /\ value \in 1 .. Len(leases)
      BY <3>1, <3>3, <2>5, <2>6
    <3>5. newest <= value /\ leases[value].generation = generation
      BY <3>4, <2>0, <2>4, <2>6 DEF LeaseEras
    <3>6. leases[value].home = t
      <4>. SUFFICES ASSUME leases[value].home # t PROVE FALSE
        OBVIOUS
      <4>1. Foreign(value, t)
        BY <3>4, <3>5, <2>0 DEF Copied, value
      <4>. QED BY <4>1, <3>2, <3>4 DEF Foreign
    <3>7. value <= newest
      BY <3>1, <3>4, <3>6, <2>1, <2>2
    <3>8. value = newest
      BY <3>2, <3>4, <3>5, <3>7
    <3>9. \A m \in ToSet(leases[newest].chain) : leases[m].active /\ leases[m].generation = generation
      <4>1. \A m \in ToSet(leases[newest].chain) : m \in 1 .. Len(leases) /\ m \notin ended
        BY <3>2, <2>0, <2>4, <2>6
      <4>2. \A m \in ToSet(leases[newest].chain) : leases[m].active
        BY <4>1, <2>0 DEF Reached
      <4>3. \A m \in ToSet(leases[newest].chain) : leases[m].generation = generation
        BY <3>2, <2>0, <2>4, <2>6 DEF LeaseEras
      <4>. QED BY <4>2, <4>3
    <3>10. newest # 0
      BY <3>2
    <3>. QED BY <3>8, <3>9, <3>10 DEF alive
  <2>7. ASSUME value \in owned, alive(value)
        PROVE  value = Max(owned \ ended)
    <3>1. /\ value \in 1 .. Len(leases) /\ value \notin ended /\ leases[value].generation = generation
      BY <2>1, <2>7, AliveNotEnded
    <3>2. ASSUME NEW l \in owned \ ended PROVE l <= value
      <4>. SUFFICES ASSUME ~(l <= value) PROVE FALSE
        OBVIOUS
      <4>1. l \in 1 .. Len(leases) /\ value <= l
        BY <3>1, <2>2
      <4>2. leases[l].generation \in Nat
        BY <4>1, <2>0, LeaseFields
      <4>3. leases[value].generation <= leases[l].generation /\ leases[l].generation <= generation
        BY <4>1, <3>1, <2>0 DEF LeaseEras
      <4>4. leases[l].generation = generation
        BY <4>2, <4>3, <3>1, <2>0
      <4>5. l \in Members(leases, value)
        BY <4>4, <3>2, <2>5
      <4>6. l \in 1 .. value
        BY <4>5, <3>1, <2>4
      <4>. QED BY <4>6, <3>1
    <3>3. owned \ ended \in SUBSET Nat /\ value \in owned \ ended
      <4>1. ASSUME NEW l \in owned PROVE l \in Nat
        BY <2>2
      <4>2. value \in owned /\ value \notin ended
        BY <3>1, <2>7
      <4>. HIDE DEF owned, value
      <4>. QED BY <4>1, <4>2
    <3>. DEFINE S == owned \ ended
    <3>. HIDE DEF S
    <3>4. Max(S) = value
      BY <3>2, <3>3, MaxIs DEF S
    <3>. QED BY <3>4 DEF S
  <2>8. /\ /\ owned # {} /\ leases[newest].generation = generation
           /\ ToSet(leases[newest].chain) \cap ended = {}
           => value = newest /\ (Len(leases[newest].chain) < Depth => alive(newest))
        /\ value \in owned /\ alive(value) => value = Max(owned \ ended)
    BY <2>6, <2>7
  <2>. QED BY <2>8, Zenon DEF owned, value
<1>. QED BY <1>1, Invariant, PTL

(***************************************************************************)
(* A probe event is queued only for a directive that is still in force     *)
(* after the supplier has run, whoever ended its request meanwhile, and    *)
(* the buffers stay within their limit (capture_probe).                    *)
(***************************************************************************)
THEOREM ProbesAuthorised == Spec => []ProbeAuthorised
<1>1. IInv => ProbeAuthorised
  <2>. SUFFICES ASSUME IInv PROVE ProbeAuthorised
    OBVIOUS
  <2>1. Cardinality(probe_buffers) <= MaxLabels
    BY DEF IInv, Buffered
  <2>2. ASSUME ~Severed, NEW t \in Tasks, NEW d \in Offered(t)
        PROVE  InForce(t, d.id)
    <3>. DEFINE own == current["directives"][t]
                triggers == IF alive(own) THEN ToSet(leases[own].directives) ELSE {}
    <3>1. d.id \in Active(t)
      BY <2>2, Zenon DEF Offered
    <3>2. PICK e \in find_matching_probe_directives(t, probe[t].label) : e.id = d.id
      BY <3>1, Zenon DEF Active
    <3>3. e \in triggers \cup Remote /\ e.expires_at > now
      BY <3>2, Zenon DEF find_matching_probe_directives, find_matching_remote_probe_directives
    <3>4. own \in 0 .. Len(leases) /\ DOMAIN leases = 1 .. Len(leases)
      <4>1. "directives" \in Kinds
        BY DEF Kinds
      <4>. QED BY <4>1 DEF IInv, Typed, LeasesLinked
    <3>5. CASE e \in Remote
      BY <3>2, <3>3, <3>5, Zenon DEF InForce
    <3>6. CASE e \notin Remote
      <4>1. alive(own) /\ e \in ToSet(leases[own].directives)
        BY <3>3, <3>6
      <4>2. own \in DOMAIN leases \ ended
        <5>. HIDE DEF own
        <5>. QED BY <3>4, <4>1, <2>2, AliveNotEnded
      <4>3. e \in UNION {ToSet(leases[l].directives) :
                           l \in {current["directives"][t]} \cap (DOMAIN leases \ ended)}
        BY <4>1, <4>2, Zenon
      <4>. QED BY <3>2, <3>3, <4>3, Zenon DEF InForce
    <3>. QED BY <3>5, <3>6
  <2>. QED BY <2>1, <2>2 DEF ProbeAuthorised
<1>. QED BY <1>1, Invariant, PTL
=============================================================================
