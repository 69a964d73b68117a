-------------------------------- MODULE Scopes --------------------------------
(***************************************************************************)
(* Who owns a request's context, its trigger directives and its operation  *)
(* (scope_ownership.py, operation_context.py, core.py), and the probes     *)
(* those directives activate (probe_capture.py). The three live in         *)
(* ContextVars: a task that is spawned copies the values of its parent, so *)
(* a value carries a lease (or an operation) that its owner revokes.       *)
(*                                                                         *)
(* A lease or an operation is a number, its Token too; 0 is None. The      *)
(* links to the parents are kept as the sequence of the numbers from a     *)
(* value to its root. Metadata of an operation is left out. A probe event  *)
(* is abstracted to the directive it was prepared for.                     *)
(***************************************************************************)
EXTENDS ProbeDirectives, FiniteSetsExt

CONSTANTS
    Tasks,          \* execution contexts: threads and asyncio tasks
    Root,           \* the one that exists from the start
    Depth,          \* how many parents a check follows: 16
    Bounds,         \* bounds: contexts and requests bound, operations begun, probes or none
    Requests,       \* requests that begin
    Labels,         \* labels of probes
    MaxLabels,      \* _max_probe_labels
    Service,        \* _service
    Environment,    \* _environment
    Configurations, \* documents a refresh may apply
    MaxTime,        \* bound: the clock
    MaxGeneration,  \* bound: init calls and forks
    MaxRevision     \* bound: dispose calls

ASSUME ScopesAssumption ==
    /\ Root \in Tasks /\ Depth \in Nat \ {0} /\ MaxLabels \in Nat \ {0}
    /\ Bounds \subseteq [leases: Nat, operations: Nat, probes: BOOLEAN] /\ MaxTime \in Nat
    /\ MaxGeneration \in Nat \ {0} /\ MaxRevision \in Nat

Kinds == {"context", "directives"}

VARIABLES
    generation,     \* _generation
    revision,       \* _operations._revision
    leases,         \* the leases bound so far
    operations,     \* the operations begun so far
    current,        \* _scoped_context and _request_trigger_directives, per task
    operation,      \* _operations._current, per task
    live,           \* tasks that run
    snapshot,       \* _remote_config_snapshot
    now,            \* _time_provider()
    probe_buffers,  \* labels with buffered probes
    probe,          \* the probe call of each task
    bound,          \* the bounds of this behaviour
    ended,          \* leases released by their own task, or by another with effect
    left            \* operations that their own task has ended

vars == <<generation, revision, leases, operations, current, operation, live, snapshot, now,
          probe_buffers, probe, bound, ended, left>>

scopes == <<leases, operations, current, operation, ended, left>>
probing == <<probe_buffers, probe, bound>>

NoProbe == [pc |-> "idle", label |-> <<>>, heavy |-> FALSE, prepared |-> {}, generation |-> 0]

Init ==
    /\ generation = 1 /\ revision = 1 /\ leases = <<>> /\ operations = <<>>
    /\ current = [k \in Kinds |-> [t \in Tasks |-> 0]]
    /\ operation = [t \in Tasks |-> 0]
    /\ live = {Root} /\ snapshot = <<>> /\ now = 0
    /\ probe_buffers = {} /\ probe = [t \in Tasks |-> NoProbe]
    /\ bound \in Bounds /\ ended = {} /\ left = {}

-----------------------------------------------------------------------------
Chain(store, n) == IF n = 0 THEN <<>> ELSE store[n].chain

(* The loops over the parents give up after Depth of them.                 *)
Followed(chain) == {chain[i] : i \in 1 .. (IF Len(chain) < Depth THEN Len(chain) ELSE Depth)}

\* Mutant: the owners around a lease are not looked at.
alive_alone(v) == v # 0 /\ leases[v].active /\ leases[v].generation = generation

alive(v) ==
    /\ v # 0 /\ Len(leases[v].chain) < Depth
    /\ \A l \in ToSet(leases[v].chain) : leases[l].active /\ leases[l].generation = generation

current_operation(t) ==
    LET o == operation[t]
    IN  IF /\ o # 0 /\ Len(operations[o].chain) < Depth
           /\ \A p \in ToSet(operations[o].chain) :
                 operations[p].active /\ operations[p].revision = revision
        THEN o ELSE 0

\* Mutant: operations nest without a limit.
Began_unlimited(t) ==
    LET n == Len(operations) + 1
    IN  [token |-> n,
         operations |-> Append(operations,
             [revision |-> revision, chain |-> <<n>> \o Chain(operations, current_operation(t)),
              active |-> TRUE, old |-> operation[t], home |-> t]),
         operation |-> [operation EXCEPT ![t] = n]]

(* OperationContexts.begin: no operation where the nesting is too deep.    *)
Began(t) ==
    LET parents == Chain(operations, current_operation(t))
        n == Len(operations) + 1
    IN  IF Len(parents) >= Depth - 1
        THEN [token |-> 0, operations |-> operations, operation |-> operation]
        ELSE [token |-> n,
              operations |-> Append(operations,
                  [revision |-> revision, chain |-> <<n>> \o parents, active |-> TRUE,
                   old |-> operation[t], home |-> t]),
              operation |-> [operation EXCEPT ![t] = n]]

(* OperationContexts.end: Token.reset raises in another context than the   *)
(* one that made the token.                                                *)
Ended(t, o) ==
    IF o = 0 \/ o \notin Followed(Chain(operations, operation[t]))
       \/ (o = operation[t] /\ operations[o].home # t)
    THEN [operations |-> operations, operation |-> operation]
    ELSE [operations |-> [operations EXCEPT ![o].active = FALSE],
          operation |-> IF o = operation[t] THEN [operation EXCEPT ![t] = operations[o].old]
                        ELSE operation]

Bind(t, kind, o, triggers) ==
    LET n == Len(leases) + 1
        parent == current[kind][t]
    IN  /\ leases' = Append(leases,
              [kind |-> kind, generation |-> generation, active |-> TRUE, operation |-> o,
               chain |-> <<n>> \o (IF alive(parent) THEN leases[parent].chain ELSE <<>>),
               directives |-> triggers, old |-> parent, home |-> t])
        /\ current' = [current EXCEPT ![kind][t] = n]

bind_context(t) ==
    /\ t \in live /\ Len(leases) < bound.leases
    /\ Bind(t, "context", 0, <<>>)
    /\ UNCHANGED <<generation, revision, operations, operation, live, snapshot, now, probing, ended,
                   left>>

(* The key of trigger tokens is read before the lock is taken: it may be   *)
(* that of a configuration which has been replaced or dropped since.       *)
TriggerKeys ==
    {<<>>} \cup (IF bound.probes THEN {c.trigger_token_key : c \in Configurations} ELSE {})

(* begin_request with bind_directives.                                     *)
begin_request(t) ==
    /\ t \in live /\ Len(leases) < bound.leases /\ Len(operations) < bound.operations
    /\ \E request \in Requests, key \in TriggerKeys :
          Bind(t, "directives", Began(t).token, resolve_request_trigger_directives(request, key, now))
    /\ operations' = Began(t).operations /\ operation' = Began(t).operation
    /\ UNCHANGED <<generation, revision, live, snapshot, now, probing, ended, left>>

\* Mutant: every completion resets the variable.
release_resets(t, l) ==
    LET kind == leases[l].kind
        found == l \in Followed(Chain(leases, current[kind][t]))
    IN  /\ t \in live /\ l \notin ended
        /\ ended' = IF leases[l].home = t THEN ended \cup {l} ELSE ended
        /\ left' = IF leases[l].home = t THEN left \cup ({leases[l].operation} \ {0}) ELSE left
        /\ IF found /\ leases[l].home = t
           THEN /\ leases' = [leases EXCEPT ![l].active = FALSE]
                /\ current' = [current EXCEPT ![kind][t] = leases[l].old]
                /\ operations' = Ended(t, leases[l].operation).operations
                /\ operation' = Ended(t, leases[l].operation).operation
           ELSE UNCHANGED <<leases, current, operations, operation>>
        /\ UNCHANGED <<generation, revision, live, snapshot, now, probing>>

(* release: a token of another context raises before anything is revoked;  *)
(* a token whose lease the current value does not lead to is ignored.      *)
release(t, l) ==
    LET kind == leases[l].kind
        value == current[kind][t]
        found == l \in Followed(Chain(leases, value))
        foreign == l = value /\ leases[l].home # t
    IN  /\ t \in live /\ l \notin ended
        /\ ended' = IF leases[l].home = t \/ (found /\ ~foreign) THEN ended \cup {l} ELSE ended
        /\ left' = IF leases[l].home = t THEN left \cup ({leases[l].operation} \ {0}) ELSE left
        /\ IF found /\ ~foreign
           THEN /\ leases' = [leases EXCEPT ![l].active = FALSE]
                /\ current' = IF l = value THEN [current EXCEPT ![kind][t] = leases[l].old] ELSE current
                /\ operations' = Ended(t, leases[l].operation).operations
                /\ operation' = Ended(t, leases[l].operation).operation
           ELSE UNCHANGED <<leases, current, operations, operation>>
        /\ UNCHANGED <<generation, revision, live, snapshot, now, probing>>

(* OperationContexts.context: enter and leave.                             *)
EnterOperation(t) ==
    /\ t \in live /\ Len(operations) < bound.operations
    /\ operations' = Began(t).operations /\ operation' = Began(t).operation
    /\ UNCHANGED <<generation, revision, leases, current, live, snapshot, now, probing, ended,
                   left>>

LeaveOperation(t, o) ==
    /\ t \in live /\ o \notin left /\ \A l \in DOMAIN leases : leases[l].operation # o
    /\ operations' = Ended(t, o).operations /\ operation' = Ended(t, o).operation
    /\ left' = IF operations[o].home = t THEN left \cup {o} ELSE left
    /\ UNCHANGED <<generation, revision, leases, current, live, snapshot, now, probing, ended>>

(* A thread or an asyncio task started with a copy of the context.         *)
Spawn(t, u) ==
    /\ t \in live /\ u \notin live
    /\ live' = live \cup {u}
    /\ current' = [k \in Kinds |-> [current[k] EXCEPT ![u] = current[k][t]]]
    /\ operation' = [operation EXCEPT ![u] = operation[t]]
    /\ UNCHANGED <<generation, revision, leases, operations, snapshot, now, probing, ended, left>>

-----------------------------------------------------------------------------
init ==
    /\ generation < MaxGeneration
    /\ generation' = generation + 1 /\ revision' = revision + 1
    /\ snapshot' = <<>> /\ probe_buffers' = {}
    /\ UNCHANGED <<scopes, live, now, probe, bound>>

(* dispose ends every operation, not the leases.                           *)
dispose ==
    /\ revision < MaxRevision
    /\ revision' = revision + 1
    /\ UNCHANGED <<generation, scopes, live, snapshot, now, probing>>

(* The child of a fork: one task, new ContextVars, no configuration.       *)
fork(t) ==
    /\ t \in live /\ generation < MaxGeneration /\ probe[t].pc = "idle"
    /\ generation' = generation + 1 /\ revision' = 0
    /\ live' = {t} /\ snapshot' = <<>> /\ probe_buffers' = {}
    /\ current' = [k \in Kinds |-> [u \in Tasks |-> 0]]
    /\ operation' = [u \in Tasks |-> 0]
    /\ probe' = [u \in Tasks |-> NoProbe]
    /\ UNCHANGED <<leases, operations, now, bound, ended, left>>

(* A refresh of the remote configuration (module RemoteConfig).            *)
Configure ==
    /\ bound.probes
    /\ \E c \in Configurations :
          snapshot' = <<[c EXCEPT !.directives = parse_active_probes(@, now)]>>
    /\ UNCHANGED <<generation, revision, scopes, live, now, probing>>

Tick ==
    /\ bound.probes /\ now < MaxTime
    /\ now' = now + 1
    /\ UNCHANGED <<generation, revision, scopes, live, snapshot, probing>>

-----------------------------------------------------------------------------
Remote == IF snapshot # <<>> /\ snapshot[1].remote_probes_enabled
          THEN ToSet(snapshot[1].directives) ELSE {}

find_matching_probe_directives(t, label) ==
    LET own == current["directives"][t]
        triggers == IF alive(own) THEN ToSet(leases[own].directives) ELSE {}
    IN  find_matching_remote_probe_directives(triggers \cup Remote, label, Service, Environment, now)

Room(label) == label \in probe_buffers \/ Cardinality(probe_buffers) < MaxLabels

(* capture_probe: what it reads under the first lock ...                   *)
AdmitProbe(t, label, heavy) ==
    LET matching == find_matching_probe_directives(t, label)
    IN  /\ t \in live /\ probe[t].pc = "idle"
        /\ bound.probes /\ (heavy => matching # {})
        /\ Room(label)
        /\ probe' = [probe EXCEPT ![t] = [pc |-> "prepared", label |-> label, heavy |-> heavy,
                                          prepared |-> matching, generation |-> generation]]
        /\ UNCHANGED <<generation, revision, scopes, live, snapshot, now, probe_buffers, bound>>

(* ... and checks again under the second, after the application's supplier *)
(* has run. Offered is what it hands to the queue (module DeliveryQueue).  *)
Active(t) == {d.id : d \in find_matching_probe_directives(t, probe[t].label)}

Accepted(t) ==
    /\ probe[t].generation = generation /\ Room(probe[t].label)
    /\ probe[t].heavy => Active(t) # {}

\* Mutant: what was prepared is queued without a second look.
Offered_prepared(t) ==
    IF Accepted(t) /\ snapshot # <<>> /\ snapshot[1].standalone THEN probe[t].prepared ELSE {}

Offered(t) ==
    IF Accepted(t) /\ snapshot # <<>> /\ snapshot[1].standalone
    THEN {d \in probe[t].prepared : d.id \in Active(t)} ELSE {}

CommitProbe(t) ==
    /\ probe[t].pc = "prepared"
    /\ probe' = [probe EXCEPT ![t] = NoProbe]
    /\ probe_buffers' = IF Accepted(t) /\ ~probe[t].heavy THEN probe_buffers \cup {probe[t].label}
                        ELSE probe_buffers
    /\ UNCHANGED <<generation, revision, scopes, live, snapshot, now, bound>>

-----------------------------------------------------------------------------
Scope(t) ==
    \/ bind_context(t)
    \/ begin_request(t)
    \/ \E l \in DOMAIN leases : release(t, l)
    \/ EnterOperation(t)
    \/ \E o \in DOMAIN operations : LeaveOperation(t, o)
    \/ \E u \in Tasks : Spawn(t, u)

Next ==
    \/ \E t \in Tasks : Scope(t)
    \/ init
    \/ dispose
    \/ \E t \in Tasks : fork(t)
    \/ Configure
    \/ Tick
    \/ \E t \in Tasks, label \in Labels, heavy \in BOOLEAN : AdmitProbe(t, label, heavy)
    \/ \E t \in Tasks : CommitProbe(t)

Spec == Init /\ [][Next]_vars

-----------------------------------------------------------------------------
(* The type of every variable of scopes and probes.                        *)
TypeOK ==
    /\ generation \in 1 .. MaxGeneration /\ revision \in Nat
    /\ \A l \in DOMAIN leases :
          /\ leases[l].kind \in Kinds /\ leases[l].active \in BOOLEAN
          /\ leases[l].operation \in 0 .. Len(operations) /\ leases[l].old \in 0 .. l - 1
          /\ leases[l].chain[1] = l /\ Len(leases[l].chain) <= Depth
    /\ \A o \in DOMAIN operations :
          operations[o].chain[1] = o /\ Len(operations[o].chain) < Depth
    /\ \A k \in Kinds, t \in Tasks : current[k][t] \in 0 .. Len(leases)
    /\ \A t \in Tasks : operation[t] \in 0 .. Len(operations)
    /\ live \subseteq Tasks /\ ended \subseteq DOMAIN leases /\ left \subseteq DOMAIN operations
    /\ probe_buffers \subseteq Labels /\ now \in 0 .. MaxTime

(* An owner or operation began on top of one that no longer reads: it had  *)
(* ended, or was nested Depth deep. The new chain does not lead to those   *)
(* around the dead one, so release and end will not find them.             *)
Severed ==
    \/ \E l \in DOMAIN leases :
          /\ leases[l].old # 0 /\ Len(leases[l].chain) = 1
          /\ leases[leases[l].old].generation = leases[l].generation
    \/ \E o \in DOMAIN operations :
          /\ operations[o].old # 0 /\ Len(operations[o].chain) = 1
          /\ operations[operations[o].old].revision = operations[o].revision

(* A completed owner revokes every copy: whatever task reads a context or  *)
(* directives, neither their owner nor an owner they are nested in has     *)
(* released them, and the same holds of the operation a task is in         *)
(* (alive, release, OperationContexts.current and end). A task that binds  *)
(* on top of a dead owner is excepted: see CompletedRevoked.               *)
EndedRevoked ==
    ~Severed => \A t \in live :
        /\ \A k \in Kinds : alive(current[k][t]) =>
              ToSet(leases[current[k][t]].chain) \cap ended = {}
        /\ current_operation(t) # 0 =>
              ToSet(operations[current_operation(t)].chain) \cap left = {}

(* README.md:45: "Completed owners revoke copied async context", whatever  *)
(* was bound in between (release, scope_ownership.py:77).                  *)
CompletedRevoked ==
    \A t \in live :
        /\ alive(current["context"][t]) => current["context"][t] \notin ended
        /\ current_operation(t) # 0 => current_operation(t) \notin left

(* No completion hides or uncovers the wrong owner. The owner a task bound *)
(* last, if neither it nor an owner around it has ended, is the one the    *)
(* task reads, whatever older owners end (nested Depth deep it reads as    *)
(* nothing); and an owner of its own that a task reads is the newest it    *)
(* has not released (release resets the variable for the current lease     *)
(* only: "old completion never clears the currently active newer owner"),  *)
(* with the same exception.                                                *)
NewestOwnerRead ==
    ~Severed => \A t \in live, k \in Kinds :
        LET owned == {l \in DOMAIN leases : leases[l].kind = k /\ leases[l].home = t}
            newest == Max(owned)
            value == current[k][t]
        IN  /\ /\ owned # {} /\ leases[newest].generation = generation
               /\ ToSet(leases[newest].chain) \cap ended = {}
               => value = newest /\ (Len(leases[newest].chain) < Depth => alive(newest))
            /\ value \in owned /\ alive(value) => value = Max(owned \ ended)

(* A probe event is queued only for a directive that is still in force     *)
(* when the supplier of the probe has returned: it has not expired, and    *)
(* the request it came with has not ended in any task or the configuration *)
(* still has it; and no two calls overfill the buffers (capture_probe      *)
(* checks both again under its second lock).                               *)
InForce(t, id) ==
    \E d \in Remote \cup
             UNION {ToSet(leases[l].directives) :
                      l \in {current["directives"][t]} \cap (DOMAIN leases \ ended)} :
        d.id = id /\ d.expires_at > now

ProbeAuthorised ==
    /\ Cardinality(probe_buffers) <= MaxLabels
    /\ ~Severed => \A t \in Tasks : probe[t].pc = "prepared" => \A d \in Offered(t) : InForce(t, d.id)
=============================================================================
