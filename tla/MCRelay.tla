------------------------------ MODULE MCRelay ------------------------------
(***************************************************************************)
(* Small instances of Relay for TLC: the browser's requests, the names of  *)
(* files and the answers of the destination.                               *)
(***************************************************************************)
EXTENDS Relay

CONSTANTS r1, r2

Plain(type, base) ==
    [type |-> type, kind |-> "none", graph |-> FALSE, execution |-> FALSE, resources |-> FALSE,
     reference |-> FALSE, limits |-> FALSE, token |-> FALSE, base |-> base]

WithResources(base) == [Plain("frontend_exception", base) EXCEPT !.resources = TRUE]

Recovery(base) == [Plain("diagnostic_context", base) EXCEPT !.kind = "recovery"]

Candidate(e, flaw) == [event |-> e, flaw |-> flaw]

Good(e) == Candidate(e, "none")

Post(batch, service, discover) ==
    [origin |-> "own", host |-> "own", method |-> "POST", json |-> TRUE, fits |-> TRUE,
     decodes |-> TRUE, discover |-> discover, service |-> service, batch |-> batch]

(* Requests that handle answers before it looks at a batch.                *)
EarlyInputs ==
    LET post == Post(<<Good(Plain("request_event", 1))>>, "web", FALSE)
    IN  {[post EXCEPT !.origin = "none"], [post EXCEPT !.method = "OPTIONS"],
         [post EXCEPT !.method = "GET"], [post EXCEPT !.json = FALSE],
         [post EXCEPT !.fits = FALSE], [post EXCEPT !.decodes = FALSE],
         [post EXCEPT !.origin = "other"]}

(* One event with optional evidence; two, one of them without.             *)
Single == Post(<<Good(WithResources(1))>>, "web", TRUE)

Evidence == Post(<<Good(WithResources(1)), Good(Plain("request_event", 1))>>, "web", TRUE)

(* Events that need two requests: one too large with its evidence, and one *)
(* whose evidence is flawed. Candidates that are refused: an event that is *)
(* too large even so, and a flawed one.                                    *)
Split ==
    Post(<<Good(WithResources(5)), Candidate(WithResources(4), "optional"),
           Good(Plain("analytics_event", 9)), Candidate(Plain("request_event", 1), "text")>>,
         "shop", FALSE)

(* Candidates with flaws, a recovery, an empty batch.                      *)
FlawInputs ==
    {Post(<<Candidate(Plain(t, 1), flaw)>>, "web", FALSE) :
        t \in {"request_event", "log_event"}, flaw \in {"shape", "envelope"}} \cup
    {Post(<<Good(Recovery(1)), Candidate(WithResources(1), "envelope")>>, "web", TRUE),
     Post(<<>>, "web", FALSE)}

(* Two threads: only the second serves the service seen for the first time.*)
DurableInputs ==
    [r \in Requests |-> IF r = r1 THEN {Single} ELSE {Evidence, Split} \cup EarlyInputs \cup FlawInputs]

SpoolInputs == [r \in Requests |-> {Post(<<Good(Plain("request_event", 1))>>, "web", FALSE)}]

WireInputs ==
    [r \in Requests |-> {Post(<<Good(Plain("request_event", a)), Good(Plain("request_event", b))>>,
                              "web", TRUE) : a \in 1 .. 3, b \in 1 .. 3}]

Connected(durable, token) ==
    [project_mode |-> "connected", durable_write |-> durable, forwarding |-> token]

Durable == {Connected(TRUE, TRUE)}

AllHandlers ==
    {Connected(TRUE, TRUE), Connected(TRUE, FALSE), Connected(FALSE, TRUE)} \cup
    {[project_mode |-> mode, durable_write |-> TRUE, forwarding |-> FALSE] : mode \in {"none", "local-only"}}

MCFileName == [s \in Services |-> s]

Document(set) == [present |-> TRUE, wellformed |-> TRUE, features |-> set]

NoDocument == [present |-> FALSE, wellformed |-> FALSE, features |-> {}]

Resources == Document({"resource_observations_v1"})

MCDescriptors == {NoDocument, Resources}
=============================================================================
