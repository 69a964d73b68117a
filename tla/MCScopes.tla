------------------------------- MODULE MCScopes -------------------------------
(***************************************************************************)
(* A small instance of Scopes for TLC: requests with trigger tokens and    *)
(* the configurations that activate probes.                                *)
(***************************************************************************)
EXTENDS Scopes

CONSTANTS main, worker

Activation(id, pattern, expires) ==
    [id |-> id, label_pattern |-> pattern, service |-> "*", environment |-> "production",
     expires_at |-> expires]

Token(directive, key) == [shape |-> TRUE, signed |-> key, payload |-> <<directive>>]

Trigger == Activation("trigger", <<"cart", "*">>, 1)

MCRequests ==
    {[header |-> <<Token(Trigger, "key")>>, query |-> <<>>],
     [header |-> <<Token(Trigger, "other")>>, query |-> <<Token(Trigger, "key")>>]}

Configuration(remote) ==
    [remote_probes_enabled |-> remote, standalone |-> TRUE, trigger_token_key |-> <<"key">>,
     directives |-> <<Activation("remote", <<"cart", "total">>, 1), Activation("", <<"*">>, 1)>>]

MCConfigurations == {Configuration(TRUE), Configuration(FALSE)}

(* Nested owners, owners with operations, and probes under a single owner. *)
MCBounds ==
    {[leases |-> 4, operations |-> 0, probes |-> FALSE],
     [leases |-> 0, operations |-> 4, probes |-> FALSE],
     [leases |-> 3, operations |-> 1, probes |-> FALSE],
     [leases |-> 2, operations |-> 2, probes |-> FALSE],
     [leases |-> 1, operations |-> 3, probes |-> FALSE],
     [leases |-> 1, operations |-> 1, probes |-> TRUE]}

(* Four owners of one task, copied by another.                             *)
FourOwners == {[leases |-> 4, operations |-> 0, probes |-> FALSE]}

MCLabels == {<<"cart", "total">>, <<"user">>}
=============================================================================
