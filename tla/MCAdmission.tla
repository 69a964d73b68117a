------------------------------ MODULE MCAdmission ------------------------------
(***************************************************************************)
(* A small instance of Admission for TLC, with three workloads: a storm of *)
(* exceptions from one caller, the same exception captured by two paths in *)
(* shared operations, and recoveries with a hook that rewrites them.       *)
(***************************************************************************)
EXTENDS Admission

CONSTANTS main, worker

MCFingerprint(x) == x

(* The second id is longer than the others.                                *)
MCIdBytes(id) == IF id = 2 THEN 2 ELSE 1

Observed(key, attempt) == [key |-> key, attempt |-> attempt]

Exceptional(captures, callers, exceptions, operations, time, restarts) ==
    [captures |-> captures, callers |-> callers, exceptions |-> exceptions,
     hooks |-> IF operations > 0 THEN BOOLEAN ELSE {FALSE}, operations |-> operations,
     observations |-> {}, time |-> time, resets |-> restarts]

Recovering(observations, time, restarts) ==
    [captures |-> 0, callers |-> {}, exceptions |-> {}, hooks |-> {FALSE}, operations |-> 0,
     observations |-> observations, time |-> time, resets |-> restarts]

MCLoads ==
    {Exceptional(6, {main}, {1}, 0, 8, 0),
     Exceptional(4, {main}, {1, 2, 3}, 0, 3, 1),
     Exceptional(2, {main, worker}, {1}, 2, 2, 1),
     Recovering({Observed("a", 1), Observed("a", 2)}, 2, 0),
     Recovering({Observed("a", 1), Observed("b", 1)}, 1, 1)}
=============================================================================
