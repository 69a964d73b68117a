-------------------------- MODULE MCDeliveryQueue --------------------------
(***************************************************************************)
(* Small instances of DeliveryQueue for TLC.                               *)
(***************************************************************************)
EXTENDS DeliveryQueue

Threads == Permutations(Callers) \cup Permutations(Flushers)

(* Every object some thread or the queue references, in a fixed order.     *)
Objects ==
    LET callers == SetToSeq(Callers)
        flushers == SetToSeq(Flushers)
    IN  buffer \o FlattenSeq([i \in DOMAIN callers |-> cap[callers[i]].event])
               \o FlattenSeq([i \in DOMAIN flushers |->
                                fl[flushers[i]].done \o fl[flushers[i]].todo])

(***************************************************************************)
(* States that differ only in the identities of their objects are the      *)
(* same: identities are named by their first position in Objects. This is  *)
(* sound while no table holds the identity of a freed object, which is     *)
(* NoStaleIdentity.                                                        *)
(***************************************************************************)
UpToIdentity ==
    LET objects == Objects
        name == [i \in Ids |-> LET at == {k \in DOMAIN objects : objects[k].id = i}
                               IN  IF at = {} THEN -i ELSE Min(at)]
        Named(s) == [k \in DOMAIN s |-> [s[k] EXCEPT !.id = name[@]]]
    IN  << Named(buffer), {<<name[i], buffer_sizes[i]>> : i \in DOMAIN buffer_sizes},
           {name[i] : i \in hook_bypass}, {name[i] : i \in diagnostics},
           [c \in Callers |-> [cap[c] EXCEPT !.event = Named(@)]],
           [f \in Flushers |-> [fl[f] EXCEPT !.done = Named(@), !.todo = Named(@)]],
           buffer_bytes, pending_low_priority, pressure, evidence, sender, timer,
           health, life, lock >>
=============================================================================
