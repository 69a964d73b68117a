------------------------- MODULE RemoteConfigProofs -------------------------
(***************************************************************************)
(* Proofs about RemoteConfig, for any number of timer threads, documents,  *)
(* failures and generations. The inductive invariant IInv adds to the      *)
(* properties what a thread carries from one locked section to the next    *)
(* (Carried): the document it was sent is one granted to its generation,   *)
(* with a proof of the features it lists, and the ETag it sent, or the 304 *)
(* it got, still has a configuration.                                      *)
(***************************************************************************)
EXTENDS RemoteConfig, TLAPS

Versions == DOMAIN Documents
OptionalVersions == {<<>>} \cup {<<v>> : v \in Versions}

Threads ==
    [pc : {"idle", "armed", "fired", "fetching", "answered"}, initial : BOOLEAN,
     generation : 0 .. MaxGeneration, etag : OptionalVersions,
     reply : {"none", "failure", "304", "200"}, version : {0} \cup Versions, tagged : BOOLEAN]

(* A thread that carries nothing: it has ended, or its timer has not fired. *)
Armed(initial) == [Idle EXCEPT !.pc = "armed", !.initial = initial]
Resting == {Idle, Armed(TRUE), Armed(FALSE)}

(* A configuration in force is one that parses. *)
Snapshots == {<<>>} \cup {parse_remote_config(v) : v \in Versions}

Typed ==
    /\ generation \in 0 .. MaxGeneration /\ enabled \in BOOLEAN /\ fetch_impl \in BOOLEAN
    /\ owner \in {"none", "init", "dispose", "fork"}
    /\ capture_policy.preset # "" /\ capture_policy.capture_logs \in LogLevels
    /\ remote_config_snapshot \in Snapshots /\ remote_config_etag \in OptionalVersions
    /\ features \subseteq FEATURES /\ initial_config_ready \in BOOLEAN
    /\ remote_config_timer \in {<<>>} \cup {<<p>> : p \in Pollers}
    /\ poller \in [Pollers -> Threads]
    /\ \A p \in Pollers : poller[p].generation <= generation
    /\ served \in Versions /\ faults \in 0 .. MaxFaults /\ granted \subseteq Versions
    /\ proofs \subseteq SUBSET FEATURES

(* What a thread holds between two locked sections.                        *)
Carries(t, current, documents, proved, snapshot) ==
    /\ t.reply # "none" => t.pc = "answered"
    /\ t.reply = "200" => t.version \in Versions
    /\ t.reply = "200" /\ t.generation = current =>
          t.version \in documents /\ Proof(t.version) \in proved
    /\ t.pc = "fetching" /\ t.etag # <<>> /\ t.generation = current => snapshot # <<>>
    /\ t.reply = "304" /\ t.generation = current => snapshot # <<>>

Carried ==
    \A p \in Pollers : Carries(poller[p], generation, granted, proofs, remote_config_snapshot)

Restricted ==
    owner = "init" /\ fetch_impl /\ remote_config_snapshot = <<>> => capture_policy = MINIMAL_CAPTURE_POLICY

Owned == remote_config_etag # <<>> => remote_config_snapshot # <<>>

IInv ==
    /\ Typed /\ Carried /\ Restricted /\ PolicyGranted /\ Owned /\ EvidenceProved
    /\ OneTimer /\ PollingContinues
-----------------------------------------------------------------------------
(* parse_capture_policy returns no policy or one with a preset and a level. *)
LEMMA PolicyType ==
    ASSUME NEW payload, parse_capture_policy(payload) # <<>>
    PROVE  \E policy : /\ parse_capture_policy(payload) = <<policy>>
                       /\ policy.preset # "" /\ policy.capture_logs \in LogLevels
<1>1. CASE payload = <<>>
    <2>1. parse_capture_policy(payload) = <<BALANCED_CAPTURE_POLICY>>
        BY <1>1 DEF parse_capture_policy
    <2>2. BALANCED_CAPTURE_POLICY.preset # "" /\ BALANCED_CAPTURE_POLICY.capture_logs \in LogLevels
        BY DEF BALANCED_CAPTURE_POLICY, LogLevels
    <2>. QED BY <2>1, <2>2
<1>2. CASE payload # <<>>
    <2>. DEFINE p == payload[1]
                preset == IF p.preset = "" THEN BALANCED_CAPTURE_POLICY.preset ELSE p.preset
                statuses == parse_immediate_client_error_statuses(p.statuses)
                rules == parse_immediate_client_error_path_rules(p.rules)
                policy == [preset |-> preset, capture_logs |-> p.capture_logs,
                           capture_request_events |-> p.capture_request_events,
                           capture_breadcrumbs |-> p.capture_breadcrumbs,
                           capture_probe_events |-> p.capture_probe_events,
                           statuses |-> statuses[1], rules |-> rules[1],
                           capture_diagnostic_context |-> preset # "minimal" /\ p.diagnostic # "false"]
    <2>1. p.capture_logs \in LogLevels /\ parse_capture_policy(payload) = <<policy>>
        BY <1>2, Zenon DEF parse_capture_policy
    <2>2. preset # ""
        BY DEF BALANCED_CAPTURE_POLICY
    <2>3. policy.preset # "" /\ policy.capture_logs \in LogLevels
        BY <2>1, <2>2
    <2>. HIDE DEF policy
    <2>. QED BY <2>1, <2>3
<1>. QED BY <1>1, <1>2

(* parse_remote_config: the configuration has the policy of its document. *)
LEMMA SnapshotType ==
    ASSUME NEW v \in Versions, parse_remote_config(v) # <<>>
    PROVE  \E s : /\ parse_remote_config(v) = <<s>> /\ s.version = v
                  /\ parse_capture_policy(Documents[v].capture_policy) = <<s.capture_policy>>
                  /\ s.capture_policy.preset # "" /\ s.capture_policy.capture_logs \in LogLevels
<1>1. parse_capture_policy(Documents[v].capture_policy) # <<>>
    BY DEF parse_remote_config
<1>2. PICK policy : /\ parse_capture_policy(Documents[v].capture_policy) = <<policy>>
                    /\ policy.preset # "" /\ policy.capture_logs \in LogLevels
    BY <1>1, PolicyType
<1>. DEFINE s == [version |-> v, remote_probes_enabled |-> Documents[v].remote_probes_enabled,
                  capture_policy |-> policy]
<1>3. parse_remote_config(v) = <<s>>
    <2>0. <<policy>>[1] = policy
        OBVIOUS
    <2>1. parse_capture_policy(Documents[v].capture_policy)[1] = policy
        BY <1>2, <2>0, Zenon
    <2>. QED BY <2>1, Zenon DEF parse_remote_config
<1>4. s.version = v /\ s.capture_policy = policy
    OBVIOUS
<1>. HIDE DEF s
<1>. QED BY <1>2, <1>3, <1>4

(* A descriptor proves known features only. *)
LEMMA DescriptorType ==
    ASSUME NEW d
    PROVE  parse_capabilities(d) \subseteq FEATURES
BY DEF parse_capabilities

(* A document proves known features only. *)
LEMMA ProofType ==
    ASSUME NEW v
    PROVE  Proof(v) \subseteq FEATURES
BY DescriptorType DEF Proof

(* What is observed of an answer is what the document it holds proves. *)
LEMMA ObservedIsProof ==
    ASSUME NEW p \in Pollers
    PROVE  Observed(p) = Proof(poller[p].version)
BY DEF Observed, Proof

(* A thread that rests is well formed. *)
LEMMA RestingType ==
    Resting \subseteq Threads
<1>1. 0 \in 0 .. MaxGeneration /\ <<>> \in OptionalVersions /\ 0 \in {0} \cup Versions
    BY ConfigAssumption DEF OptionalVersions
<1>2. Idle \in Threads
    BY <1>1 DEF Idle, Threads
<1>3. \A initial \in BOOLEAN : Armed(initial) \in Threads
    BY <1>2 DEF Armed, Threads
<1>. QED BY <1>2, <1>3 DEF Resting

(* A thread that rests carries nothing. *)
LEMMA RestingFields ==
    \A t \in Resting : t.reply = "none" /\ t.pc # "fetching" /\ t.generation = 0
<1>1. Idle.reply = "none" /\ Idle.pc # "fetching" /\ Idle.generation = 0
    BY DEF Idle
<1>2. \A i \in BOOLEAN : Armed(i).reply = "none" /\ Armed(i).pc # "fetching" /\ Armed(i).generation = 0
    BY DEF Armed, Idle
<1>. QED BY <1>1, <1>2 DEF Resting

(* Timer.cancel leaves every other thread alone. *)
LEMMA CancelEffect ==
    ASSUME NEW threads \in [Pollers -> Threads],
           \A p \in Pollers : threads[p].pc = "armed" => remote_config_timer = <<p>>
    PROVE  /\ Cancel(threads) \in [Pollers -> Threads]
           /\ \A p \in Pollers : /\ Cancel(threads)[p].pc # "armed"
                                 /\ Cancel(threads)[p] \in {threads[p], Idle}
                                 /\ threads[p].pc # "armed" => Cancel(threads)[p] = threads[p]
<1>1. Idle \in Threads /\ Idle.pc = "idle"
    BY RestingType DEF Resting, Idle
<1>. QED BY <1>1 DEF Cancel

(* Timer.start in a thread that is free. *)
LEMMA ArmEffect ==
    ASSUME NEW threads \in [Pollers -> Threads], NEW initial \in BOOLEAN,
           \A p \in Pollers : threads[p].pc # "armed",
           \E p \in Pollers : threads[p].pc = "idle",
           Arm(threads, initial)
    PROVE  \E q \in Pollers : /\ threads[q].pc = "idle"
                              /\ poller' = [threads EXCEPT ![q] = Armed(initial)]
                              /\ remote_config_timer' = <<q>>
<1>1. FreeThread(threads) \in Pollers /\ threads[FreeThread(threads)].pc = "idle"
    BY DEF FreeThread
<1>. QED BY <1>1 DEF Arm, Armed

(* A refresh that ends with _schedule_next_remote_config_refresh: a thread *)
(* keeps what it carried or rests, the only armed timer is the referenced  *)
(* one, and it is armed unless the configuration says otherwise.           *)
Ended(schedules) ==
    /\ poller' \in [Pollers -> Threads]
    /\ \A q \in Pollers : poller'[q] \in {poller[q]} \cup Resting
    /\ remote_config_timer' \in {<<>>} \cup {<<p>> : p \in Pollers}
    /\ OneTimer'
    /\ schedules => \E q \in Pollers : poller'[q].pc = "armed"

(* _schedule_next_remote_config_refresh, called by the thread p as its last step. *)
LEMMA ScheduleEffect ==
    ASSUME Typed, OneTimer, NEW p \in Pollers, poller[p].pc = "answered",
           NEW snapshot, NEW use_fallback \in BOOLEAN,
           schedule_next_remote_config_refresh([poller EXCEPT ![p] = Idle], snapshot, use_fallback)
    PROVE  Ended(fetch_impl /\ (use_fallback \/ snapshot = <<>> \/ snapshot[1].remote_probes_enabled))
<1>. DEFINE threads == [poller EXCEPT ![p] = Idle]
            cancelled == Cancel(threads)
            schedules == fetch_impl /\ (use_fallback \/ snapshot = <<>> \/ snapshot[1].remote_probes_enabled)
<1>. SUFFICES Ended(schedules)
    OBVIOUS
<1>0. Idle \in Threads /\ Idle \in Resting /\ Idle.pc = "idle"
    BY RestingType DEF Resting, Idle
<1>1. /\ threads \in [Pollers -> Threads] /\ threads[p] = Idle
      /\ \A q \in Pollers : q # p => threads[q] = poller[q]
    BY <1>0 DEF Typed
<1>2. \A q \in Pollers : threads[q].pc = "armed" => remote_config_timer = <<q>>
    BY <1>0, <1>1 DEF OneTimer
<1>3. IF schedules THEN Arm(cancelled, FALSE) ELSE poller' = cancelled /\ remote_config_timer' = <<>>
    BY DEF schedule_next_remote_config_refresh
<1>. HIDE DEF threads
<1>4. /\ cancelled \in [Pollers -> Threads]
      /\ \A q \in Pollers : /\ cancelled[q].pc # "armed"
                            /\ cancelled[q] \in {threads[q], Idle}
                            /\ threads[q].pc # "armed" => cancelled[q] = threads[q]
    BY <1>1, <1>2, CancelEffect
<1>. HIDE DEF cancelled, schedules
<1>5. cancelled[p].pc = "idle"
    BY <1>0, <1>1, <1>4
<1>6. \A q \in Pollers : cancelled[q] \in {poller[q]} \cup Resting
    BY <1>0, <1>1, <1>4
<1>7. CASE schedules
    <2>1. PICK q \in Pollers : /\ cancelled[q].pc = "idle"
                               /\ poller' = [cancelled EXCEPT ![q] = Armed(FALSE)]
                               /\ remote_config_timer' = <<q>>
        BY <1>3, <1>4, <1>5, <1>7, ArmEffect
    <2>2. Armed(FALSE) \in Threads /\ Armed(FALSE) \in Resting /\ Armed(FALSE).pc = "armed"
        BY RestingType DEF Resting, Armed, Idle
    <2>3. poller' \in [Pollers -> Threads] /\ poller'[q] = Armed(FALSE)
        BY <1>4, <2>1, <2>2
    <2>4. \A r \in Pollers : r # q => poller'[r] = cancelled[r]
        BY <1>4, <2>1
    <2>. QED BY <1>4, <1>6, <2>1, <2>2, <2>3, <2>4 DEF Ended, OneTimer
<1>8. CASE ~schedules
    BY <1>3, <1>4, <1>6, <1>8 DEF Ended, OneTimer
<1>. QED BY <1>7, <1>8

(* Threads that keep what they carried or rest carry no more than before,  *)
(* while the generation, the documents granted and the configuration stay. *)
LEMMA CarriedKept ==
    ASSUME Carried, \A q \in Pollers : poller'[q] \in {poller[q]} \cup Resting,
           generation' = generation, granted \subseteq granted', proofs \subseteq proofs',
           remote_config_snapshot # <<>> => remote_config_snapshot' # <<>>
    PROVE  Carried'
BY RestingFields DEF Carried, Carries

(* The generation counter. *)
LEMMA GenerationType ==
    ASSUME IInv
    PROVE  /\ generation \in Nat /\ generation <= MaxGeneration /\ 0 <= generation
           /\ generation < MaxGeneration => generation + 1 \in 0 .. MaxGeneration
<1>1. MaxGeneration \in Nat
    BY ConfigAssumption
<1>2. generation \in 0 .. MaxGeneration
    BY DEF IInv, Typed
<1>. QED BY <1>1, <1>2

(* Steps that leave the configuration alone leave alone what depends on it. *)
LEMMA ConfigKept ==
    ASSUME IInv, UNCHANGED <<sdk, config>>, granted \subseteq granted', proofs \subseteq proofs'
    PROVE  Restricted' /\ PolicyGranted' /\ Owned' /\ EvidenceProved'
<1>1. UNCHANGED <<generation, enabled, fetch_impl, owner, capture_policy, remote_config_snapshot,
                  remote_config_etag, features>>
    BY DEF sdk, config
<1>. QED BY <1>1 DEF IInv, Restricted, PolicyGranted, Owned, EvidenceProved

(* The thread keeps the chain of refreshes going. *)
Alive(t, current) ==
    t.pc \in {"armed", "fired"} \/ (t.pc \in {"fetching", "answered"} /\ t.generation = current)

(* PollingContinues asks for a thread that is alive. *)
LEMMA AliveIsPolling ==
    ASSUME enabled
    PROVE  (\E p \in Pollers : Alive(poller[p], generation)) <=>
              \/ \E p \in Pollers : poller[p].pc \in {"armed", "fired"}
              \/ \E p \in Pollers : poller[p].pc \in {"fetching", "answered"} /\ ~Outdated(p)
BY DEF Alive, Outdated

(* One thread moves on; the SDK and its configuration stay as they are.    *)
LEMMA ThreadStep ==
    ASSUME IInv, NEW p \in Pollers, NEW t \in Threads,
           t.pc # "armed", t.generation <= generation,
           Carries(t, generation, granted', proofs', remote_config_snapshot),
           enabled /\ fetch_impl /\ Alive(poller[p], generation) => Alive(t, generation),
           poller' = [poller EXCEPT ![p] = t],
           UNCHANGED <<sdk, config, remote_config_timer>>, initial_config_ready' \in BOOLEAN,
           granted \subseteq granted', granted' \subseteq Versions,
           proofs \subseteq proofs', proofs' \subseteq SUBSET FEATURES,
           served' \in Versions, faults' \in 0 .. MaxFaults
    PROVE  IInv'
<1>1. UNCHANGED <<generation, enabled, fetch_impl, owner, capture_policy, remote_config_snapshot,
                  remote_config_etag, features, remote_config_timer>>
    BY DEF sdk, config
<1>2. /\ poller' \in [Pollers -> Threads] /\ poller'[p] = t
      /\ \A q \in Pollers : q # p => poller'[q] = poller[q]
    BY DEF IInv, Typed
<1>3. Typed'
    <2>1. \A q \in Pollers : poller'[q].generation <= generation'
        BY <1>1, <1>2 DEF IInv, Typed
    <2>. QED BY <1>1, <1>2, <2>1 DEF IInv, Typed
<1>4. Carried'
    <2>1. \A q \in Pollers : Carries(poller[q], generation, granted', proofs', remote_config_snapshot)
        BY DEF IInv, Carried, Carries
    <2>. QED BY <1>1, <1>2, <2>1 DEF Carried
<1>5. OneTimer'
    BY <1>1, <1>2 DEF IInv, OneTimer
<1>6. PollingContinues'
    <2>. SUFFICES ASSUME Polls', ~Stopped' PROVE \E q \in Pollers : Alive(poller'[q], generation')
        BY <1>1 DEF PollingContinues, Alive, Outdated, Polls
    <2>1. Polls /\ ~Stopped
        BY <1>1 DEF Polls, Stopped
    <2>2. PICK q \in Pollers : Alive(poller[q], generation)
        BY <2>1, AliveIsPolling DEF IInv, PollingContinues, Polls
    <2>. QED BY <1>1, <1>2, <2>1, <2>2 DEF Polls
<1>. QED BY <1>3, <1>4, <1>5, <1>6, ConfigKept DEF IInv

(* The end of a refresh: Confirm, Fallback and Adopt.                      *)
LEMMA EndStep ==
    ASSUME IInv, NEW p \in Pollers, poller[p].pc = "answered",
           NEW snapshot \in Snapshots, NEW use_fallback \in BOOLEAN,
           schedule_next_remote_config_refresh([poller EXCEPT ![p] = Idle], snapshot, use_fallback),
           remote_config_snapshot' = snapshot,
           remote_config_snapshot # <<>> => snapshot # <<>>,
           Finish(p), UNCHANGED <<sdk, history, server>>,
           capture_policy'.preset # "" /\ capture_policy'.capture_logs \in LogLevels,
           remote_config_etag' \in OptionalVersions, features' \subseteq FEATURES,
           Restricted', PolicyGranted', Owned', EvidenceProved'
    PROVE  IInv'
<1>1. UNCHANGED <<generation, enabled, fetch_impl, owner, served, faults, granted, proofs>>
    BY DEF sdk, server, history
<1>. DEFINE schedules == fetch_impl /\ (use_fallback \/ snapshot = <<>> \/ snapshot[1].remote_probes_enabled)
<1>2. Ended(schedules)
    BY ScheduleEffect DEF IInv
<1>3. OneTimer' /\ Carried'
    BY <1>1, <1>2, CarriedKept DEF Ended, IInv
<1>4. Typed'
    <2>1. initial_config_ready' \in BOOLEAN
        BY DEF Finish
    <2>2. \A q \in Pollers : poller'[q].generation <= generation'
        <3>1. 0 <= generation /\ generation' = generation
            BY <1>1, GenerationType
        <3>2. \A q \in Pollers : poller[q].generation <= generation
            BY DEF IInv, Typed
        <3>3. \A q \in Pollers : poller'[q] = poller[q] \/ poller'[q].generation = 0
            BY <1>2, RestingFields DEF Ended
        <3>. QED BY <3>1, <3>2, <3>3
    <2>. QED BY <1>1, <1>2, <2>1, <2>2 DEF Ended, IInv, Typed
<1>5. PollingContinues'
    <2>. SUFFICES ASSUME Polls', ~Stopped' PROVE \E q \in Pollers : poller'[q].pc = "armed"
        BY DEF PollingContinues
    <2>1. schedules
        BY <1>1 DEF Polls, Stopped
    <2>. QED BY <1>2, <2>1 DEF Ended
<1>. QED BY <1>3, <1>4, <1>5 DEF IInv

-----------------------------------------------------------------------------
(* The initial state. *)
LEMMA IInvInit == Init => IInv
<1>. SUFFICES ASSUME Init PROVE IInv
    OBVIOUS
<1>1. Idle \in Threads /\ Idle.pc = "idle" /\ Idle.reply = "none" /\ Idle.generation = 0
    BY RestingType DEF Resting, Idle
<1>2. Typed
    <2>1. 1 \in Versions /\ 0 \in 0 .. MaxGeneration /\ 0 \in 0 .. MaxFaults
        BY ConfigAssumption DEF Versions
    <2>2. BALANCED_CAPTURE_POLICY.preset # "" /\ BALANCED_CAPTURE_POLICY.capture_logs \in LogLevels
        BY DEF BALANCED_CAPTURE_POLICY, LogLevels
    <2>3. poller \in [Pollers -> Threads] /\ \A p \in Pollers : poller[p].generation = 0
        BY <1>1 DEF Init
    <2>4. \A p \in Pollers : poller[p].generation <= generation
        BY <2>3 DEF Init
    <2>. QED BY <2>1, <2>2, <2>3, <2>4 DEF Init, Typed, Snapshots, OptionalVersions
<1>3. Carried /\ OneTimer
    BY <1>1 DEF Init, Carried, Carries, OneTimer
<1>. QED BY <1>2, <1>3 DEF Init, IInv, Restricted, PolicyGranted, Owned, EvidenceProved,
                               PollingContinues, Polls

(* init cancels the timer and starts a new generation: what older threads  *)
(* carry is of an older one.                                               *)
LEMMA IInvReset ==
    ASSUME IInv, NEW e \in BOOLEAN, NEW f \in BOOLEAN, NEW pin, init(e, f, pin)
    PROVE  IInv'
<1>1. /\ generation' = generation + 1 /\ generation' \in 0 .. MaxGeneration
      /\ \A p \in Pollers : poller[p].generation <= generation
      /\ poller \in [Pollers -> Threads] /\ generation \in Nat
    BY GenerationType DEF IInv, Typed, init
<1>. DEFINE cancelled == Cancel(poller)
<1>2. /\ cancelled \in [Pollers -> Threads]
      /\ \A p \in Pollers : cancelled[p].pc # "armed" /\ cancelled[p] \in {poller[p], Idle}
    BY <1>1, CancelEffect DEF IInv, OneTimer
<1>3. /\ IF e /\ f THEN Arm(cancelled, TRUE) ELSE poller' = cancelled /\ remote_config_timer' = <<>>
      /\ \E p \in Pollers : cancelled[p].pc = "idle"
    BY DEF init
<1>. HIDE DEF cancelled
<1>4. /\ poller' \in [Pollers -> Threads]
      /\ \A q \in Pollers : poller'[q] \in {poller[q]} \cup Resting
      /\ remote_config_timer' \in {<<>>} \cup {<<p>> : p \in Pollers}
      /\ OneTimer'
      /\ e /\ f => \E q \in Pollers : poller'[q].pc = "armed"
    <2>1. CASE e /\ f
        <3>1. PICK q \in Pollers : /\ poller' = [cancelled EXCEPT ![q] = Armed(TRUE)]
                                   /\ remote_config_timer' = <<q>>
            BY <1>2, <1>3, <2>1, ArmEffect
        <3>2. Armed(TRUE) \in Threads /\ Armed(TRUE) \in Resting /\ Armed(TRUE).pc = "armed"
            BY RestingType DEF Resting, Armed, Idle
        <3>3. /\ poller' \in [Pollers -> Threads] /\ poller'[q] = Armed(TRUE)
              /\ \A r \in Pollers : r # q => poller'[r] = cancelled[r]
            BY <1>2, <3>1, <3>2
        <3>. QED BY <1>2, <3>1, <3>2, <3>3 DEF OneTimer, Resting
    <2>2. CASE ~(e /\ f)
        BY <1>2, <1>3, <2>2 DEF OneTimer, Resting
    <2>. QED BY <2>1, <2>2
<1>5. \A t \in Resting : t.reply = "none" /\ t.pc # "fetching" /\ t.generation = 0
    BY RestingFields
<1>6. \A q \in Pollers : poller'[q].generation <= generation
    <2>1. \A q \in Pollers : poller'[q] = poller[q] \/ poller'[q].generation = 0
        BY <1>4, <1>5
    <2>. QED BY <1>1, <2>1
<1>7. Carried'
    <2>1. \A q \in Pollers : poller'[q].generation # generation'
        BY <1>1, <1>4, <1>6 DEF Threads
    <2>2. \A q \in Pollers : /\ poller'[q].reply # "none" => poller'[q].pc = "answered"
                             /\ poller'[q].reply = "200" => poller'[q].version \in Versions
        BY <1>4, <1>5 DEF IInv, Carried, Carries
    <2>. QED BY <2>1, <2>2 DEF Carried, Carries
<1>8. Typed'
    <2>1. /\ enabled' \in BOOLEAN /\ fetch_impl' \in BOOLEAN /\ owner' = "init"
          /\ remote_config_snapshot' = <<>> /\ remote_config_etag' = <<>>
          /\ features' \subseteq FEATURES /\ proofs' \subseteq SUBSET FEATURES
          /\ initial_config_ready' \in BOOLEAN /\ granted' = {} /\ UNCHANGED <<served, faults>>
        BY DescriptorType DEF init, server
    <2>2. capture_policy'.preset # "" /\ capture_policy'.capture_logs \in LogLevels
        BY DEF init, BALANCED_CAPTURE_POLICY, MINIMAL_CAPTURE_POLICY, LogLevels
    <2>3. \A q \in Pollers : poller'[q].generation <= generation'
        BY <1>1, <1>4, <1>6 DEF Threads
    <2>. QED BY <1>1, <1>4, <2>1, <2>2, <2>3 DEF IInv, Typed, Snapshots, OptionalVersions
<1>9. Restricted' /\ PolicyGranted' /\ Owned' /\ EvidenceProved'
    BY DEF init, Restricted, PolicyGranted, Owned, EvidenceProved
<1>10. PollingContinues'
    BY <1>4 DEF init, PollingContinues, Polls
<1>. QED BY <1>4, <1>7, <1>8, <1>9, <1>10 DEF IInv

(* dispose and fork. *)
LEMMA IInvStopped ==
    ASSUME IInv, dispose \/ fork
    PROVE  IInv'
<1>1. CASE dispose
    <2>1. UNCHANGED <<generation, enabled, fetch_impl, capture_policy, remote_config_snapshot,
                      remote_config_etag, initial_config_ready, granted, proofs, served, faults>>
        BY <1>1 DEF dispose, server, history
    <2>2. /\ poller' = Cancel(poller) /\ remote_config_timer' = <<>> /\ features' = {}
          /\ owner' = "dispose"
        BY <1>1 DEF dispose
    <2>3. /\ poller' \in [Pollers -> Threads]
          /\ \A p \in Pollers : poller'[p].pc # "armed" /\ poller'[p] \in {poller[p], Idle}
        BY <2>2, CancelEffect DEF IInv, Typed, OneTimer
    <2>4. \A p \in Pollers : poller'[p] \in {poller[p]} \cup Resting
        BY <2>3 DEF Resting
    <2>5. Carried'
        BY <2>1, <2>4, CarriedKept DEF IInv
    <2>6. Typed'
        <3>1. \A p \in Pollers : poller'[p] = poller[p] \/ poller'[p].generation = 0
            BY <2>4, RestingFields
        <3>2. \A p \in Pollers : poller'[p].generation <= generation'
            BY <2>1, <3>1, GenerationType DEF IInv, Typed
        <3>. QED BY <2>1, <2>2, <2>3, <3>2 DEF IInv, Typed
    <2>. QED BY <2>1, <2>2, <2>3, <2>5, <2>6
             DEF IInv, Restricted, PolicyGranted, Owned, EvidenceProved, OneTimer,
                 PollingContinues, Polls
<1>2. CASE fork
    <2>1. UNCHANGED <<enabled, fetch_impl, capture_policy, granted, served, faults>>
        BY <1>2 DEF fork, server
    <2>2. /\ generation' \in 0 .. MaxGeneration /\ owner' = "fork" /\ remote_config_timer' = <<>>
          /\ initial_config_ready' \in BOOLEAN /\ features' = {} /\ proofs' = {}
          /\ remote_config_etag' = <<>> /\ remote_config_snapshot' = <<>>
        BY <1>2, GenerationType DEF fork
    <2>3. Idle \in Threads /\ Idle.generation = 0 /\ Idle.pc = "idle" /\ Idle.reply = "none"
        BY RestingType DEF Resting, Idle
    <2>4. poller' \in [Pollers -> Threads] /\ \A p \in Pollers : poller'[p] = Idle
        BY <1>2, <2>3 DEF fork
    <2>5. Carried' /\ OneTimer'
        BY <2>3, <2>4 DEF Carried, Carries, OneTimer
    <2>6. Typed'
        <3>1. \A p \in Pollers : poller'[p].generation <= generation'
            BY <2>2, <2>3, <2>4
        <3>. QED BY <2>1, <2>2, <2>4, <3>1 DEF IInv, Typed, Snapshots, OptionalVersions
    <2>. QED BY <2>1, <2>2, <2>5, <2>6
             DEF IInv, Restricted, PolicyGranted, Owned, EvidenceProved, PollingContinues, Polls
<1>. QED BY <1>1, <1>2

(* The thread of a refresh up to its answer, and one whose answer is late. *)
LEMMA IInvThread ==
    ASSUME IInv, NEW p \in Pollers,
           Fire(p) \/ Begin(p) \/ FetchFails(p) \/ NotModified(p) \/ Modified(p) \/ Discard(p)
    PROVE  IInv'
<1>1. /\ poller[p] \in Threads /\ poller[p].generation <= generation
      /\ Carries(poller[p], generation, granted, proofs, remote_config_snapshot)
      /\ served \in Versions /\ faults \in 0 .. MaxFaults /\ granted \subseteq Versions
      /\ proofs \subseteq SUBSET FEATURES
      /\ initial_config_ready \in BOOLEAN /\ remote_config_etag \in OptionalVersions
      /\ remote_config_etag # <<>> => remote_config_snapshot # <<>>
    BY DEF IInv, Typed, Carried, Owned
<1>2. generation \in 0 .. MaxGeneration /\ 0 <= generation /\ generation <= generation
    <2>1. generation \in 0 .. MaxGeneration
        BY DEF IInv, Typed
    <2>. QED BY <2>1, GenerationType
<1>3. /\ Idle \in Threads /\ Idle.pc = "idle" /\ Idle.generation = 0
      /\ \A g, documents, proved, snapshot : Carries(Idle, g, documents, proved, snapshot)
    BY RestingType, RestingFields DEF Resting, Idle, Carries
<1>4. CASE Fire(p)
    <2>. DEFINE t == [poller[p] EXCEPT !.pc = "fired"]
    <2>1. /\ t \in Threads /\ t.pc = "fired" /\ t.generation = poller[p].generation
          /\ t.reply = poller[p].reply /\ t.version = poller[p].version
        BY <1>1 DEF Threads
    <2>2. poller[p].reply = "none"
        BY <1>1, <1>4 DEF Fire, Carries, Threads
    <2>3. poller' = [poller EXCEPT ![p] = t]
        BY <1>4 DEF Fire
    <2>4. UNCHANGED <<sdk, config, remote_config_timer, initial_config_ready, granted, proofs, served, faults>>
        BY <1>4 DEF Fire, server, history
    <2>. HIDE DEF t
    <2>5. Carries(t, generation, granted', proofs', remote_config_snapshot) /\ Alive(t, generation)
        BY <2>1, <2>2 DEF Carries, Alive
    <2>. QED BY <1>1, <2>1, <2>3, <2>4, <2>5, ThreadStep
<1>5. CASE Begin(p)
    <2>1. CASE enabled /\ fetch_impl
        <3>. DEFINE t == [poller[p] EXCEPT !.pc = "fetching", !.generation = generation,
                                           !.etag = remote_config_etag]
        <3>1. /\ t \in Threads /\ t.pc = "fetching" /\ t.generation = generation
              /\ t.reply = poller[p].reply /\ t.etag = remote_config_etag
            BY <1>1, <1>2 DEF Threads
        <3>2. poller[p].reply = "none"
            BY <1>1, <1>5 DEF Begin, Carries, Threads
        <3>3. poller' = [poller EXCEPT ![p] = t]
            BY <1>5, <2>1 DEF Begin
        <3>4. UNCHANGED <<sdk, config, remote_config_timer, initial_config_ready, granted, proofs, served, faults>>
            BY <1>5, <2>1 DEF Begin, server, history
        <3>. HIDE DEF t
        <3>5. Carries(t, generation, granted', proofs', remote_config_snapshot) /\ Alive(t, generation)
            BY <1>1, <3>1, <3>2 DEF Carries, Alive
        <3>. QED BY <1>1, <1>2, <3>1, <3>3, <3>4, <3>5, ThreadStep
    <2>2. CASE ~(enabled /\ fetch_impl)
        <3>1. poller' = [poller EXCEPT ![p] = Idle] /\ initial_config_ready' \in BOOLEAN
            BY <1>5, <2>2 DEF Begin, Finish
        <3>2. UNCHANGED <<sdk, config, remote_config_timer, granted, proofs, served, faults>>
            BY <1>5 DEF Begin, server, history
        <3>. QED BY <1>1, <1>2, <1>3, <2>2, <3>1, <3>2, ThreadStep
    <2>. QED BY <2>1, <2>2
<1>6. ASSUME poller[p].pc = "fetching",
             NEW reply \in {"failure", "304", "200"}, NEW version \in {0} \cup Versions,
             NEW tagged \in BOOLEAN, Answered(p, reply, version, tagged),
             reply = "200" => version \in Versions,
             reply = "200" /\ poller[p].generation = generation =>
                version \in granted' /\ Proof(version) \in proofs',
             reply = "304" => poller[p].etag # <<>>,
             UNCHANGED <<sdk, config, initial_config_ready, remote_config_timer>>,
             granted \subseteq granted', granted' \subseteq Versions,
             proofs \subseteq proofs', proofs' \subseteq SUBSET FEATURES,
             served' \in Versions, faults' \in 0 .. MaxFaults
      PROVE  IInv'
    <2>. DEFINE t == [poller[p] EXCEPT !.pc = "answered", !.reply = reply, !.version = version,
                                       !.tagged = tagged, !.etag = <<>>]
    <2>1. /\ t \in Threads /\ t.pc = "answered" /\ t.generation = poller[p].generation
          /\ t.reply = reply /\ t.version = version
        BY <1>1 DEF Threads, OptionalVersions
    <2>2. poller' = [poller EXCEPT ![p] = t]
        BY <1>6 DEF Answered
    <2>. HIDE DEF t
    <2>3. Carries(t, generation, granted', proofs', remote_config_snapshot)
        BY <1>1, <1>6, <2>1 DEF Carries
    <2>4. Alive(poller[p], generation) => Alive(t, generation)
        BY <1>6, <2>1 DEF Alive
    <2>. QED BY <1>1, <1>6, <2>1, <2>2, <2>3, <2>4, ThreadStep
<1>7. CASE FetchFails(p)
    <2>1. faults' \in 0 .. MaxFaults
        BY <1>1, <1>7, ConfigAssumption DEF FetchFails
    <2>2. UNCHANGED <<sdk, config, initial_config_ready, remote_config_timer, granted, proofs, served>>
        BY <1>7 DEF FetchFails, history
    <2>. QED BY <1>1, <1>6, <1>7, <2>1, <2>2 DEF FetchFails
<1>8. CASE NotModified(p)
    <2>1. poller[p].etag # <<>>
        BY <1>8 DEF NotModified
    <2>2. UNCHANGED <<sdk, config, initial_config_ready, remote_config_timer, granted, proofs, served, faults>>
        BY <1>8 DEF NotModified, server, history
    <2>. QED BY <1>1, <1>6, <1>8, <2>1, <2>2 DEF NotModified
<1>9. CASE Modified(p)
    <2>1. UNCHANGED <<sdk, config, initial_config_ready, remote_config_timer, served, faults>>
        BY <1>9 DEF Modified, server, history
    <2>2. PICK tagged \in BOOLEAN : Answered(p, "200", served, tagged)
        BY <1>9, ConfigAssumption DEF Modified
    <2>3. /\ granted \subseteq granted' /\ granted' \subseteq Versions
          /\ proofs \subseteq proofs' /\ proofs' \subseteq SUBSET FEATURES
          /\ poller[p].generation = generation => served \in granted' /\ Proof(served) \in proofs'
        BY <1>1, <1>9, ProofType DEF Modified
    <2>. QED BY <1>1, <1>6, <1>9, <2>1, <2>2, <2>3 DEF Modified
<1>10. CASE Discard(p)
    <2>1. poller' = [poller EXCEPT ![p] = Idle] /\ initial_config_ready' \in BOOLEAN
        BY <1>10 DEF Discard, Finish
    <2>2. UNCHANGED <<sdk, config, remote_config_timer, granted, proofs, served, faults>>
        BY <1>10 DEF Discard, server, history
    <2>3. ~(enabled /\ Alive(poller[p], generation))
        BY <1>10 DEF Discard, Outdated, Alive
    <2>. QED BY <1>1, <1>2, <1>3, <2>1, <2>2, <2>3, ThreadStep
<1>. QED BY <1>4, <1>5, <1>7, <1>8, <1>9, <1>10

(* The server publishes its next document. *)
LEMMA IInvPublish == IInv /\ Publish => IInv'
<1>. SUFFICES ASSUME IInv, Publish PROVE IInv'
    OBVIOUS
<1>1. UNCHANGED <<sdk, config>> /\ UNCHANGED <<initial_config_ready, remote_config_timer, poller, granted, proofs, faults>>
    BY DEF Publish, history
<1>2. UNCHANGED <<generation, enabled, fetch_impl, owner, capture_policy, remote_config_snapshot,
                  remote_config_etag, features>>
    BY <1>1 DEF sdk, config
<1>3. served' \in Versions
    <2>1. Versions = 1 .. Len(Documents) /\ Len(Documents) \in Nat
        BY ConfigAssumption DEF Versions
    <2>2. served \in Versions /\ served < Len(Documents) /\ served' = served + 1
        BY DEF Publish, IInv, Typed
    <2>. QED BY <2>1, <2>2
<1>4. Restricted' /\ PolicyGranted' /\ Owned' /\ EvidenceProved'
    BY <1>1, ConfigKept
<1>. QED BY <1>1, <1>2, <1>3, <1>4
         DEF IInv, Typed, Carried, OneTimer, PollingContinues, Polls, Stopped, Outdated

(* An acknowledgement changes the proof of optional evidence only.         *)
LEMMA IInvAcknowledge ==
    ASSUME IInv, NEW descriptor, Acknowledge(descriptor)
    PROVE  IInv'
<1>1. /\ UNCHANGED <<generation, enabled, fetch_impl, owner, capture_policy>>
      /\ UNCHANGED <<remote_config_snapshot, remote_config_etag, initial_config_ready>>
      /\ UNCHANGED <<remote_config_timer, poller, granted, served, faults>>
      /\ features' = parse_capabilities(descriptor)
      /\ proofs' = proofs \cup {parse_capabilities(descriptor)}
    BY DEF Acknowledge, sdk, server
<1>. DEFINE proved == parse_capabilities(descriptor)
<1>2. Typed' /\ EvidenceProved'
    <2>1. proved \subseteq FEATURES
        BY DescriptorType
    <2>. HIDE DEF proved
    <2>2. features' = proved /\ proofs' = proofs \cup {proved}
        BY <1>1 DEF proved
    <2>3. proofs' \subseteq SUBSET FEATURES
        BY <2>1, <2>2 DEF IInv, Typed
    <2>. QED BY <1>1, <2>1, <2>2, <2>3 DEF IInv, Typed, EvidenceProved
<1>3. Carried'
    BY <1>1, CarriedKept DEF IInv
<1>4. Restricted' /\ PolicyGranted' /\ Owned'
    BY <1>1 DEF IInv, Restricted, PolicyGranted, Owned
<1>5. OneTimer' /\ PollingContinues'
    BY <1>1 DEF IInv, OneTimer, PollingContinues, Polls, Stopped, Outdated
<1>. QED BY <1>2, <1>3, <1>4, <1>5 DEF IInv

(* The applied answers: a 304, a failure or an unusable document, and a    *)
(* configuration.                                                          *)
LEMMA IInvAnswer ==
    ASSUME IInv, NEW p \in Pollers, Confirm(p) \/ Fallback(p) \/ Adopt(p)
    PROVE  IInv'
<1>0. /\ Carries(poller[p], generation, granted, proofs, remote_config_snapshot)
      /\ remote_config_snapshot \in Snapshots /\ remote_config_etag \in OptionalVersions
      /\ features \subseteq FEATURES
      /\ capture_policy.preset # "" /\ capture_policy.capture_logs \in LogLevels
    BY DEF IInv, Typed, Carried
<1>1. CASE Confirm(p)
    <2>1. /\ UNCHANGED <<sdk, config>> /\ UNCHANGED <<sdk, history, server>> /\ Finish(p)
          /\ UNCHANGED <<granted, proofs>>
        BY <1>1 DEF Confirm, history
    <2>2. UNCHANGED <<capture_policy, remote_config_snapshot, remote_config_etag, features>>
        BY <2>1 DEF config
    <2>3. Restricted' /\ PolicyGranted' /\ Owned' /\ EvidenceProved'
        BY <2>1, ConfigKept
    <2>. QED BY <1>0, <1>1, <2>1, <2>2, <2>3, EndStep DEF Confirm
<1>2. CASE Fallback(p)
    <2>1. /\ UNCHANGED <<sdk, history, server>> /\ Finish(p) /\ poller[p].pc = "answered"
          /\ UNCHANGED <<remote_config_snapshot, remote_config_etag, granted, proofs>>
          /\ features' \in {{}, features}
          /\ capture_policy' \in {MINIMAL_CAPTURE_POLICY, capture_policy}
          /\ schedule_next_remote_config_refresh([poller EXCEPT ![p] = Idle], remote_config_snapshot, TRUE)
        BY <1>2 DEF Fallback, Observed, history
    <2>2. UNCHANGED <<generation, enabled, fetch_impl, owner>>
        BY <2>1 DEF sdk
    <2>3. /\ MINIMAL_CAPTURE_POLICY.preset # "" /\ MINIMAL_CAPTURE_POLICY.capture_logs \in LogLevels
        BY DEF MINIMAL_CAPTURE_POLICY, LogLevels
    <2>4. capture_policy'.preset # "" /\ capture_policy'.capture_logs \in LogLevels
        BY <1>0, <2>1, <2>3
    <2>5. features' \subseteq FEATURES
        BY <1>0, <2>1
    <2>6. Restricted' /\ PolicyGranted'
        BY <2>1, <2>2 DEF IInv, Restricted, PolicyGranted
    <2>7. Owned' /\ EvidenceProved'
        BY <2>1, <2>2 DEF IInv, Owned, EvidenceProved
    <2>. QED BY <1>0, <2>1, <2>2, <2>4, <2>5, <2>6, <2>7, EndStep
<1>3. CASE Adopt(p)
    <2>. DEFINE v == poller[p].version
                snapshot == parse_remote_config(v)
    <2>1. /\ UNCHANGED <<sdk, history, server>> /\ Finish(p) /\ poller[p].pc = "answered"
          /\ UNCHANGED <<granted, proofs>> /\ poller[p].reply = "200" /\ snapshot # <<>> /\ ~Outdated(p)
          /\ features' = Observed(p) /\ remote_config_snapshot' = snapshot
          /\ capture_policy' = snapshot[1].capture_policy
          /\ remote_config_etag' = IF poller[p].tagged THEN <<v>> ELSE remote_config_etag
          /\ schedule_next_remote_config_refresh([poller EXCEPT ![p] = Idle], snapshot, FALSE)
        BY <1>3 DEF Adopt, history
    <2>2. UNCHANGED <<generation, enabled, fetch_impl, owner>>
        BY <2>1 DEF sdk
    <2>3. v \in Versions /\ v \in granted /\ Proof(v) \in proofs
        BY <1>0, <2>1 DEF Carries, Outdated
    <2>4. snapshot \in Snapshots /\ remote_config_etag' \in OptionalVersions
        BY <1>0, <2>1, <2>3 DEF Snapshots, OptionalVersions
    <2>5. PICK s : /\ parse_remote_config(v) = <<s>> /\ s.version = v
                   /\ parse_capture_policy(Documents[v].capture_policy) = <<s.capture_policy>>
                   /\ s.capture_policy.preset # "" /\ s.capture_policy.capture_logs \in LogLevels
        BY <2>1, <2>3, SnapshotType
    <2>6. snapshot[1] = s
        <3>1. <<s>>[1] = s
            OBVIOUS
        <3>. QED BY <2>5, <3>1, Zenon
    <2>7. capture_policy'.preset # "" /\ capture_policy'.capture_logs \in LogLevels
        BY <2>1, <2>5, <2>6
    <2>8. features' \subseteq FEATURES /\ Owned' /\ EvidenceProved'
        <3>1. features' = Proof(v) /\ features' \subseteq FEATURES
            BY <2>1, ObservedIsProof, ProofType
        <3>2. remote_config_snapshot' # <<>>
            BY <2>1
        <3>. QED BY <2>1, <2>3, <3>1, <3>2 DEF Owned, EvidenceProved
    <2>9. Restricted' /\ PolicyGranted'
        <3>1. remote_config_snapshot' # <<>> /\ capture_policy' = remote_config_snapshot'[1].capture_policy
            BY <2>1
        <3>2. <<capture_policy'>> = parse_capture_policy(Documents[v].capture_policy) /\ v \in granted'
            BY <2>1, <2>3, <2>5, <2>6
        <3>. HIDE DEF v, snapshot
        <3>. QED BY <3>1, <3>2 DEF Restricted, PolicyGranted
    <2>. HIDE DEF snapshot, v
    <2>. QED BY <2>1, <2>2, <2>4, <2>7, <2>8, <2>9, EndStep
<1>. QED BY <1>1, <1>2, <1>3

(* IInv holds in every reachable state. *)
LEMMA Invariant == Spec => []IInv
<1>1. IInv /\ [Next]_vars => IInv'
    <2>. SUFFICES ASSUME IInv, [Next]_vars PROVE IInv'
        OBVIOUS
    <2>1. ASSUME NEW p \in Pollers, Refresh(p) PROVE IInv'
        BY <2>1, IInvThread, IInvAnswer DEF Refresh
    <2>2. CASE UNCHANGED vars
        <3>1. /\ UNCHANGED <<generation, enabled, fetch_impl, capture_policy, remote_config_snapshot>>
              /\ UNCHANGED <<remote_config_etag, features, initial_config_ready, remote_config_timer>>
              /\ UNCHANGED <<poller, served, faults, owner, granted, proofs>>
            BY <2>2 DEF vars
        <3>2. Typed'
            BY <3>1 DEF IInv, Typed
        <3>3. Carried' /\ OneTimer'
            BY <3>1 DEF IInv, Carried, OneTimer
        <3>4. Restricted' /\ PolicyGranted' /\ Owned' /\ EvidenceProved'
            BY <3>1, ConfigKept DEF sdk, config
        <3>5. PollingContinues'
            BY <3>1 DEF IInv, PollingContinues, Polls, Stopped, Outdated
        <3>. QED BY <3>2, <3>3, <3>4, <3>5 DEF IInv
    <2>. QED BY <2>1, <2>2, IInvReset, IInvStopped, IInvPublish, IInvAcknowledge DEF Next
<1>. QED BY <1>1, IInvInit, PTL DEF Spec

(* Every reachable state has the shapes TypeOK lists: in particular the    *)
(* policy in force always has a preset and a log level, whatever documents *)
(* were parsed.                                                            *)
THEOREM TypeCorrect == Spec => []TypeOK
<1>1. ASSUME IInv PROVE TypeOK
    <2>1. Len(remote_config_snapshot) <= 1
        <3>1. CASE remote_config_snapshot = <<>>
            BY <3>1
        <3>2. CASE remote_config_snapshot # <<>>
            <4>1. PICK v \in Versions : remote_config_snapshot = parse_remote_config(v)
                BY <1>1, <3>2 DEF IInv, Typed, Snapshots
            <4>2. \E s : remote_config_snapshot = <<s>>
                BY <3>2, <4>1, SnapshotType
            <4>. QED BY <4>2
        <3>. QED BY <3>1, <3>2
    <2>2. Len(remote_config_etag) <= 1
        <3>1. remote_config_etag = <<>> \/ \E v \in Versions : remote_config_etag = <<v>>
            BY <1>1, Zenon DEF IInv, Typed, OptionalVersions
        <3>2. CASE remote_config_etag = <<>>
            BY <3>2
        <3>3. CASE \E v : remote_config_etag = <<v>>
            BY <3>3
        <3>. QED BY <3>1, <3>2, <3>3
    <2>3. \A p \in Pollers : poller[p] \in Threads
        BY <1>1 DEF IInv, Typed
    <2>4. \A p \in Pollers : /\ poller[p].pc \in {"idle", "armed", "fired", "fetching", "answered"}
                             /\ poller[p].reply \in {"none", "failure", "304", "200"}
        BY <2>3 DEF Threads
    <2>. QED BY <1>1, <2>1, <2>2, <2>4 DEF IInv, Typed, TypeOK, Versions
<1>. QED BY <1>1, Invariant, PTL

(* Until a configuration arrives an SDK that fetches one admits only       *)
(* failed requests and error logs, for every request and log level: init   *)
(* and the fallback of a failed fetch use the restrictive policy.          *)
THEOREM StartsRestricted == Spec => []RestrictedUntilArrival
<1>1. ASSUME NEW q, should_capture_request_event(MINIMAL_CAPTURE_POLICY, q)
      PROVE  q.status # <<>> /\ q.status[1] >= 500
    <2>1. ~matches_immediate_client_error_path_rule(q.status[1], q.path, q.method, <<>>)
        BY DEF matches_immediate_client_error_path_rule
    <2>. QED BY <1>1, <2>1 DEF should_capture_request_event, is_immediate_request_incident_status,
                               MINIMAL_CAPTURE_POLICY
<1>2. ASSUME NEW log_level \in DOMAIN LEVEL_RANKS, NEW level \in DOMAIN LEVEL_RANKS,
             log_level_eligible(MINIMAL_CAPTURE_POLICY, log_level, level)
      PROVE  level \in {"error", "critical"}
    BY <1>2 DEF log_level_eligible, effective_log_threshold, LEVEL_RANKS, MINIMAL_CAPTURE_POLICY
<1>3. IInv => RestrictedUntilArrival
    BY <1>1, <1>2 DEF IInv, Restricted, RestrictedUntilArrival
<1>. QED BY <1>3, Invariant, PTL

(* The policy in force is the restrictive one or one the server sent to a  *)
(* fetch begun after the last init: an answer of an earlier generation is  *)
(* never applied, in whatever order overlapping refreshes end.             *)
THEOREM PolicyFromServer == Spec => []PolicyGranted
<1>1. IInv => PolicyGranted
    BY DEF IInv
<1>. QED BY <1>1, Invariant, PTL

(* A 304 always has a configuration to confirm, and an ETag is kept only   *)
(* with one, however re-initializations and forks overtake the fetches.    *)
THEOREM KeptWithConfiguration == Spec => []Grounded
<1>1. ASSUME IInv PROVE Grounded
    <2>1. \A p \in Pollers : poller[p].reply = "304" /\ ~Outdated(p) => remote_config_snapshot # <<>>
        BY <1>1 DEF IInv, Carried, Carries, Outdated
    <2>. QED BY <1>1, <2>1 DEF IInv, Owned, Grounded
<1>. QED BY <1>1, Invariant, PTL

(* The features in force are what the pin, one document that parses or one *)
(* acknowledgement has proved since the last init or fork.                 *)
THEOREM OnlyProvedEvidence == Spec => []EvidenceProved
<1>1. IInv => EvidenceProved
    BY DEF IInv
<1>. QED BY <1>1, Invariant, PTL

(* Every armed timer is the one the SDK refers to, for any number of       *)
(* overlapping refreshes: none is left that dispose cannot cancel.         *)
THEOREM NoOrphanTimer == Spec => []OneTimer
<1>1. IInv => OneTimer
    BY DEF IInv
<1>. QED BY <1>1, Invariant, PTL

(* An initialized SDK always has a timer or a refresh of its generation,   *)
(* unless its configuration ended the polling.                             *)
THEOREM ChainNeverBreaks == Spec => []PollingContinues
<1>1. IInv => PollingContinues
    BY DEF IInv
<1>. QED BY <1>1, Invariant, PTL
=============================================================================
