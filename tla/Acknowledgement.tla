-------------------------- MODULE Acknowledgement --------------------------
(***************************************************************************)
(* What a transport's answer says of the events of a batch                 *)
(* (acknowledgement.py). A body is a record; `keys' is FALSE for a missing *)
(* body or one with none of accepted, rejected and errors. A count or an   *)
(* index that is not a number is negative here, a missing reason is "".    *)
(* The errors of a decision are sets: nothing depends on their order.      *)
(***************************************************************************)
EXTENDS Integers, SequencesExt

RETRYABLE_REASONS == {"rate_limited", "monthly_quota_exceeded", "analytics_quota_exceeded"}

NotAcknowledged(kind) ==
    [kind |-> kind, accepted |-> 0, retryable_indices |-> {}, terminal_errors |-> {}]

is_count(n) == n >= 0

Consistent(body, batch_length) ==
    /\ is_count(body.accepted) /\ is_count(body.rejected)
    /\ body.accepted + body.rejected = batch_length
    /\ Len(body.errors) = body.rejected

ValidErrors(errors, batch_length) ==
    \A i \in DOMAIN errors :
        /\ errors[i].index \in 0 .. batch_length - 1
        /\ errors[i].reason # ""
        /\ \A j \in 1 .. i - 1 : errors[j].index # errors[i].index

decide_acknowledgement(body, batch_length, required) ==
    CASE ~body.keys -> NotAcknowledged(IF required THEN "protocol_failure" ELSE "legacy")
      [] body.keys /\ ~Consistent(body, batch_length) -> NotAcknowledged("protocol_failure")
      [] body.keys /\ Consistent(body, batch_length) ->
            IF ~ValidErrors(body.errors, batch_length) THEN NotAcknowledged("protocol_failure")
            ELSE [kind |-> "acknowledged", accepted |-> body.accepted,
                  retryable_indices |-> {e \in ToSet(body.errors) : e.reason \in RETRYABLE_REASONS},
                  terminal_errors |-> {e \in ToSet(body.errors) : e.reason \notin RETRYABLE_REASONS}]
=============================================================================
