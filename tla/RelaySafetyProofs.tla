------------------------- MODULE RelaySafetyProofs -------------------------
(***************************************************************************)
(* The safety theorems of Relay. RelayProofs keeps the types and what each *)
(* thread knows of its events; here a step is first summed up by what it   *)
(* may change at each stage of a request (Shape), and the other invariants *)
(* follow from that and from the few actions that each is about.           *)
(***************************************************************************)
EXTENDS RelayProofs

-----------------------------------------------------------------------------
(* The stages of a request, in the order of handle.                        *)

Early == {"arrive", "rate", "store"}

Filing == {"lookup", "create", "write", "replace", "cleanup"}

After == {"forward", "chunk", "send", "merge", "publish", "mark", "accept"}

(* Where a thread goes from a stage.                                       *)
Turn(q, p) ==
    /\ q.pc \in Early => p.pc \in {"rate", "store", "screen", "done"}
    /\ q.pc = "screen" =>
          /\ p.pc \in {"screen", "done", "accept", "lookup", "forward"}
          /\ p.pc = "lookup" => Spooling
          /\ p.pc \in {"accept", "forward"} => ~Spooling
          /\ p.pc \in {"accept", "forward", "lookup"} => p.events # <<>>
          /\ p.pc = "done" => p.status # 500 /\ (p.events = <<>> \/ (q.input.batch = <<>> /\ p.events = q.events))
          /\ p.pc = "screen" => q.input.batch # <<>>
    /\ q.pc \in {"lookup", "create"} => p.pc \in {"create", "write"}
    /\ q.pc = "write" => p.pc \in {"replace", "cleanup"}
    /\ q.pc = "replace" => p.pc \in {"forward", "accept", "cleanup"}
    /\ q.pc = "cleanup" => p.pc = "done" /\ p.status = 500
    /\ q.pc \in {"forward", "publish"} => p.pc \in {"chunk", "mark", "accept", "done"}
    /\ q.pc = "chunk" => p.pc \in {"send", "mark", "accept", "done"}
    /\ q.pc = "send" => p.pc \in {"send", "merge"}
    /\ q.pc = "merge" => p.pc = "publish"
    /\ q.pc \in Sending \cup {"forward"} =>
          /\ p.pc = "mark" => Spooling
          /\ p.pc = "done" => ~Spooling /\ p.status = 500
    /\ q.pc = "mark" => p.pc = "accept"
    /\ q.pc = "accept" => p.pc = "done" /\ (p.raised \/ p.status # 500)
    /\ q.pc # "done"

(* What the step of a thread may change of its locals at each stage.       *)
LocalShape(q, p) ==
    /\ Turn(q, p)
    /\ q.pc # "arrive" => p.input = q.input
    /\ q.pc # "rate" => p.at = q.at /\ p.limited = q.limited
    /\ q.pc \notin {"rate", "store"} => p.stamps = q.stamps
    /\ q.pc \notin {"arrive", "rate"} => p.pc \notin {"arrive", "rate"}
    /\ q.pc # "screen" => p.events = q.events
    /\ q.pc \notin {"write", "accept"} => p.path = q.path
    /\ q.pc \notin {"lookup", "create", "accept"} => p.writer = q.writer
    /\ q.pc \notin {"write", "replace"} => p.wrote = q.wrote
    /\ q.pc # "send" => p.acked = q.acked
    /\ p.pc # "done" => p.status \in {0, q.status}
    /\ q.pc # "accept" => p.raised = q.raised
    /\ q.pc \in {"arrive", "rate", "store"} /\ p.pc = "done" => p.status # 500

(* And of what the threads share.                                          *)
SharedShape(q) ==
    /\ handler' = handler /\ now' = now
    /\ q.pc # "store" => rate_limit_state' = rate_limit_state
    /\ q.pc # "create" => transports' = transports
    /\ q.pc \notin {"create", "write", "replace"} => writers' = writers
    /\ q.pc # "replace" => files' = files
    /\ q.pc \notin {"write", "replace", "cleanup"} => temps' = temps
    /\ q.pc # "mark" => markers' = markers
    /\ q.pc \notin {"send", "publish"} => features' = features
    /\ q.pc # "send" => granted' = granted

Shape(r) ==
    /\ ReqMoves(r) /\ SendMoves(r)
    /\ LocalShape(req[r], req'[r]) /\ SharedShape(req[r])

(* A refusal is no failure of the relay.                                   *)
LEMMA RefusalStatus ==
    ASSUME NEW i
    PROVE  Refusal(i) # 500
<1>1. CASE ~IsOriginAllowed(i)
  <2>1. Refusal(i) = 403
    BY <1>1, Zenon DEF Refusal
  <2>. QED BY <2>1
<1>2. CASE IsOriginAllowed(i) /\ i.method = "OPTIONS"
  BY <1>2 DEF Refusal
<1>3. CASE IsOriginAllowed(i) /\ i.method \notin {"OPTIONS", "POST"}
  BY <1>3 DEF Refusal
<1>4. CASE IsOriginAllowed(i) /\ i.method = "POST"
  BY <1>4 DEF Refusal
<1>. QED BY <1>1, <1>2, <1>3, <1>4

(* A step that changes nothing shared.                                     *)
LEMMA ShapeShared ==
    ASSUME NEW q, UNCHANGED <<handler, limiter, spool, proof>>
    PROVE  SharedShape(q)
BY DEF SharedShape, limiter, spool, proof

(* Until the batch is screened.                                            *)
LEMMA ShapeScreening ==
    ASSUME Base, NEW r \in Requests,
           Arrive(r) \/ RateRead(r) \/ RateStore(r) \/ ScreenCandidate(r) \/ EmptyBatch(r)
    PROVE  Shape(r)
<1>0. Typed
  BY DEF Base
<1>1. CASE Arrive(r)
  <2>1. PICK i \in Inputs[r] :
            req' = [req EXCEPT ![r].input = i, ![r].status = Refusal(i),
                               ![r].pc = IF Refusal(i) = 0 THEN "rate" ELSE "done"]
    BY <1>1 DEF Arrive
  <2>2. /\ ReqMoves(r) /\ SameBatch(r) /\ SameFile(r) /\ req'[r].acked = req[r].acked
        /\ req'[r].raised = req[r].raised /\ req'[r].status = Refusal(i)
        /\ req'[r].at = req[r].at /\ req'[r].limited = req[r].limited /\ req'[r].stamps = req[r].stamps
        /\ req'[r].pc = IF Refusal(i) = 0 THEN "rate" ELSE "done"
    BY <1>0, <2>1, ArriveMoves
  <2>3. req[r].pc = "arrive" /\ UNCHANGED <<handler, limiter, spool, proof, send>>
    BY <1>1 DEF Arrive
  <2>4. LocalShape(req[r], req'[r])
    BY <2>2, <2>3, RefusalStatus DEF LocalShape, Turn, Early, Sending, SameBatch, SameFile
  <2>. QED BY <1>0, <2>2, <2>3, <2>4, SendSame, ShapeShared DEF Shape
<1>2. CASE RateRead(r)
  <2>2. /\ ReqMoves(r) /\ SameBatch(r) /\ SameFile(r) /\ SameReply(r) /\ req'[r].pc = "store"
        /\ req'[r].input = req[r].input
    BY <1>0, <1>2, RateReadMoves
  <2>3. req[r].pc = "rate" /\ UNCHANGED <<handler, limiter, spool, proof, send>>
    BY <1>2 DEF RateRead
  <2>4. LocalShape(req[r], req'[r])
    BY <2>2, <2>3 DEF LocalShape, Turn, Early, Sending, SameBatch, SameFile, SameReply
  <2>. QED BY <1>0, <2>2, <2>3, <2>4, SendSame, ShapeShared DEF Shape
<1>3. CASE RateStore(r)
  <2>2. /\ ReqMoves(r) /\ SameBatch(r) /\ SameFile(r) /\ req'[r].acked = req[r].acked
        /\ req'[r].raised = req[r].raised /\ req'[r].input = req[r].input
        /\ req'[r].at = req[r].at /\ req'[r].limited = req[r].limited
        /\ req'[r].status = IF req[r].limited THEN 429 ELSE IF req[r].input.decodes THEN 0 ELSE 400
        /\ req'[r].pc = IF req[r].limited \/ ~req[r].input.decodes THEN "done" ELSE "screen"
    BY <1>0, <1>3, RateStoreMoves
  <2>3. req[r].pc = "store" /\ UNCHANGED <<handler, now, spool, proof, send>>
    BY <1>3 DEF RateStore
  <2>4. LocalShape(req[r], req'[r])
    BY <2>2, <2>3 DEF LocalShape, Turn, Early, Sending, SameBatch, SameFile
  <2>5. SharedShape(req[r])
    BY <2>3 DEF SharedShape, spool, proof
  <2>. QED BY <1>0, <2>2, <2>3, <2>4, <2>5, SendSame DEF Shape
<1>4. CASE ScreenCandidate(r)
  <2>2. /\ ReqMoves(r) /\ SameRate(r) /\ SameFile(r) /\ req'[r].acked = req[r].acked
        /\ req'[r].raised = req[r].raised
        /\ req'[r].pc \in {"screen", "done", "accept", "lookup", "forward"}
        /\ req'[r].pc # "done" => req'[r].status = req[r].status
        /\ req'[r].pc = "done" => req'[r].events = <<>> /\ req'[r].status \in {202, 400}
        /\ req'[r].pc \in {"accept", "forward"} => ~Spooling
        /\ req'[r].pc = "lookup" => Spooling
        /\ req'[r].pc \in {"accept", "forward", "lookup"} => req'[r].events # <<>>
    BY <1>0, <1>4, ScreenMoves
  <2>3. req[r].pc = "screen" /\ UNCHANGED <<handler, limiter, spool, proof, send>>
    BY <1>4 DEF ScreenCandidate
  <2>4. req[r].input.batch # <<>>
    <3>1. req[r].index >= 1 /\ req[r].index \in Nat /\ req[r].index <= Len(req[r].input.batch)
      BY <1>0, <1>4 DEF Typed, LocalsTyped, LocalType, Consistency, ScreenCandidate
    <3>. QED BY <3>1
  <2>5. LocalShape(req[r], req'[r])
    BY <2>2, <2>3, <2>4 DEF LocalShape, Turn, Early, Sending, SameRate, SameFile
  <2>. QED BY <1>0, <2>2, <2>3, <2>5, SendSame, ShapeShared DEF Shape
<1>5. CASE EmptyBatch(r)
  <2>1. 202 \in Statuses /\ Respond(r, 202)
    BY <1>5 DEF EmptyBatch, Statuses
  <2>2. /\ ReqMoves(r) /\ SameRate(r) /\ SameBatch(r) /\ SameFile(r)
        /\ req'[r].acked = req[r].acked /\ req'[r].raised = req[r].raised
        /\ req'[r].pc = "done" /\ req'[r].status = 202
    BY <1>0, <2>1, RespondMoves
  <2>3. req[r].pc = "screen" /\ req[r].input.batch = <<>> /\ UNCHANGED <<handler, limiter, spool, proof, send>>
    BY <1>5 DEF EmptyBatch
  <2>4. LocalShape(req[r], req'[r])
    BY <2>2, <2>3 DEF LocalShape, Turn, Early, Sending, SameRate, SameFile, SameBatch
  <2>. QED BY <1>0, <2>2, <2>3, <2>4, SendSame, ShapeShared DEF Shape
<1>. QED BY <1>1, <1>2, <1>3, <1>4, <1>5

(* Writing the file.                                                       *)
LEMMA ShapeFiling ==
    ASSUME Base, NEW r \in Requests,
           \/ Lookup(r) \/ Create(r) \/ (\E o \in WriteOutcomes : WriteTemp(r, o))
           \/ Replace(r) \/ ReplaceFails(r) \/ Cleanup(r)
    PROVE  Shape(r)
<1>0. Typed
  BY DEF Base
<1>1. CASE Lookup(r)
  <2>1. req[r].pc = "lookup" /\ UNCHANGED <<handler, limiter, spool, proof, send>>
    BY <1>1 DEF Lookup
  <2>2. req[r].input.service \in Services
    BY <1>0, <2>1, ServiceKnown
  <2>3. /\ ReqMoves(r) /\ SameRate(r) /\ SameBatch(r) /\ SameReply(r) /\ req'[r].path = req[r].path
        /\ req'[r].wrote = req[r].wrote /\ req'[r].pc \in {"create", "write"}
    BY <1>0, <1>1, <2>2, LookupMoves
  <2>4. LocalShape(req[r], req'[r])
    BY <2>1, <2>3 DEF LocalShape, Turn, Early, Sending, SameRate, SameBatch, SameReply
  <2>. QED BY <1>0, <2>1, <2>3, <2>4, SendSame, ShapeShared DEF Shape
<1>2. CASE Create(r)
  <2>1. /\ req[r].pc = "create"
        /\ UNCHANGED <<handler, limiter, files, temps, markers, proof, send>>
    BY <1>2 DEF Create
  <2>2. /\ ReqMoves(r) /\ SameRate(r) /\ SameBatch(r) /\ SameReply(r) /\ req'[r].path = req[r].path
        /\ req'[r].wrote = req[r].wrote /\ req'[r].pc = "write"
    BY <1>0, <1>2, CreateMoves
  <2>3. LocalShape(req[r], req'[r])
    BY <2>1, <2>2 DEF LocalShape, Turn, Early, Sending, SameRate, SameBatch, SameReply
  <2>4. SharedShape(req[r])
    BY <2>1 DEF SharedShape, limiter, proof
  <2>. QED BY <1>0, <2>1, <2>2, <2>3, <2>4, SendSame DEF Shape
<1>3. ASSUME NEW o \in WriteOutcomes, WriteTemp(r, o) PROVE Shape(r)
  <2>1. /\ req[r].pc = "write"
        /\ UNCHANGED <<handler, limiter, transports, files, markers, proof, send>>
    BY <1>3 DEF WriteTemp
  <2>2. req[r].input.service \in Services /\ req[r].writer \in 1 .. Len(writers)
    BY <1>0, <2>1, ServiceKnown DEF Typed, Consistency
  <2>3. /\ ReqMoves(r) /\ SameRate(r) /\ SameBatch(r) /\ SameReply(r)
        /\ req'[r].writer = req[r].writer /\ req'[r].pc \in {"replace", "cleanup"}
    BY <1>0, <1>3, <2>2, WriteMoves
  <2>4. LocalShape(req[r], req'[r])
    BY <2>1, <2>3 DEF LocalShape, Turn, Early, Sending, SameRate, SameBatch, SameReply
  <2>5. SharedShape(req[r])
    BY <2>1 DEF SharedShape, limiter, proof
  <2>. QED BY <1>0, <2>1, <2>3, <2>4, <2>5, SendSame DEF Shape
<1>4. CASE Replace(r) \/ ReplaceFails(r)
  <2>1. req[r].pc = "replace" /\ UNCHANGED <<handler, limiter, transports, markers, proof, send>>
    BY <1>4 DEF Replace, ReplaceFails
  <2>3. /\ ReqMoves(r) /\ SameRate(r) /\ SameBatch(r) /\ SameReply(r)
        /\ req'[r].writer = req[r].writer /\ req'[r].path = req[r].path
        /\ req'[r].pc \in {"forward", "accept", "cleanup"}
    <3>1. CASE Replace(r)
      <4>1. PICK pc \in {"forward", "accept"} : Goto(r, pc)
        BY <3>1 DEF Replace
      <4>2. pc \in Stages
        BY DEF Stages
      <4>. QED BY <1>0, <4>1, <4>2, GotoMoves DEF SameFile
    <3>2. CASE ReplaceFails(r)
      BY <1>0, <3>2, ReplaceFailsMoves
    <3>. QED BY <1>4, <3>1, <3>2
  <2>4. LocalShape(req[r], req'[r])
    BY <2>1, <2>3 DEF LocalShape, Turn, Early, Sending, SameRate, SameBatch, SameReply
  <2>5. SharedShape(req[r])
    BY <2>1 DEF SharedShape, limiter, proof
  <2>. QED BY <1>0, <2>1, <2>3, <2>4, <2>5, SendSame DEF Shape
<1>5. CASE Cleanup(r)
  <2>1. /\ req[r].pc = "cleanup"
        /\ UNCHANGED <<handler, limiter, transports, writers, files, markers, proof, send>>
    BY <1>5 DEF Cleanup
  <2>2. 500 \in Statuses /\ Respond(r, 500)
    BY <1>5 DEF Cleanup, Statuses
  <2>3. /\ ReqMoves(r) /\ SameRate(r) /\ SameBatch(r) /\ SameFile(r)
        /\ req'[r].acked = req[r].acked /\ req'[r].raised = req[r].raised
        /\ req'[r].pc = "done" /\ req'[r].status = 500
    BY <1>0, <2>2, RespondMoves
  <2>4. LocalShape(req[r], req'[r])
    BY <2>1, <2>3 DEF LocalShape, Turn, Early, Sending, SameRate, SameBatch, SameFile
  <2>5. SharedShape(req[r])
    BY <2>1 DEF SharedShape, limiter, proof
  <2>. QED BY <1>0, <2>1, <2>3, <2>4, <2>5, SendSame DEF Shape
<1>. QED BY <1>1, <1>2, <1>3, <1>4, <1>5

(* The end of a forwarding attempt.                                        *)
LEMMA ShapeVerdict ==
    ASSUME Base, NEW r \in Requests, req[r].pc \in {"forward", "chunk", "publish"}, SharedShape(req[r]),
           NEW succeeded \in BOOLEAN, NEW done \in BOOLEAN, Verdict(r, succeeded, done)
    PROVE  Shape(r)
<1>1. /\ ReqMoves(r) /\ SameRate(r) /\ SameBatch(r) /\ SameFile(r) /\ req'[r].acked = req[r].acked
      /\ req'[r].raised = req[r].raised
      /\ req'[r].status = IF Spooling \/ succeeded THEN req[r].status ELSE 500
      /\ req'[r].pc = CASE Spooling -> IF done THEN "mark" ELSE "accept"
                        [] ~Spooling /\ succeeded -> "accept"
                        [] OTHER -> "done"
  BY VerdictMoves DEF Base
<1>2. /\ req'[r].pc \in {"mark", "accept", "done"}
      /\ req'[r].pc = "mark" => Spooling
      /\ req'[r].pc = "done" => ~Spooling /\ req'[r].status = 500
      /\ req'[r].pc # "done" => req'[r].status = req[r].status
  BY <1>1
<1>3. LocalShape(req[r], req'[r])
  BY <1>1, <1>2 DEF LocalShape, Turn, Early, Sending, SameRate, SameBatch, SameFile
<1>4. SendMoves(r)
  BY VerdictSends DEF Base
<1>. QED BY <1>1, <1>3, <1>4 DEF Shape

(* Forwarding, until an answer.                                            *)
LEMMA ShapeForwarding ==
    ASSUME Base, NEW r \in Requests,
           Forward(r) \/ GiveUp(r) \/ Chunk(r) \/ SendFails(r) \/ Merge(r) \/ Publish(r)
    PROVE  Shape(r)
<1>0. Typed
  BY DEF Base
<1>1. CASE Forward(r)
  <2>. DEFINE owned == [i \in DOMAIN req[r].events |-> [req[r].events[i] EXCEPT !.token = TRUE]]
  <2>1. req[r].pc = "forward" /\ UNCHANGED <<handler, limiter, spool, proof>>
    BY <1>1 DEF Forward
  <2>2. SharedShape(req[r])
    BY <2>1, ShapeShared
  <2>3. CASE Verdict(r, FALSE, FALSE)
    BY <2>1, <2>2, <2>3, ShapeVerdict
  <2>4. CASE /\ req' = [req EXCEPT ![r].pc = "chunk", ![r].complete = TRUE]
             /\ send' = [send EXCEPT ![r].left = owned, ![r].mine = FEATURES]
    <3>1. /\ ReqMoves(r) /\ SameRate(r) /\ SameBatch(r) /\ SameFile(r)
          /\ req'[r].pc = "chunk" /\ req'[r].acked = req[r].acked
          /\ req'[r].raised = req[r].raised /\ req'[r].status = req[r].status
      BY <1>0, <2>4, StartMoves
    <3>2. send[r] = NoAttempt
      BY <2>1 DEF Base, Acks, Forwarded, Sending
    <3>3. SendMoves(r)
      <4>1. \A x : x = owned => SendMoves(r)
        BY <1>0, <2>4, <3>2, ForwardSends, Zenon
      <4>. HIDE DEF owned
      <4>. QED BY <4>1
    <3>4. LocalShape(req[r], req'[r])
      BY <2>1, <3>1 DEF LocalShape, Turn, Early, Sending, SameRate, SameBatch, SameFile
    <3>. QED BY <2>2, <3>1, <3>3, <3>4 DEF Shape
  <2>. QED BY <1>1, <2>3, <2>4, Zenon DEF Forward
<1>2. CASE GiveUp(r)
  <2>1. /\ req[r].pc = "chunk" /\ Verdict(r, FALSE, FALSE)
        /\ UNCHANGED <<handler, limiter, spool, proof>>
    BY <1>2 DEF GiveUp
  <2>. QED BY <2>1, ShapeShared, ShapeVerdict
<1>3. CASE Chunk(r)
  <2>1. req[r].pc = "chunk" /\ Goto(r, "send") /\ UNCHANGED <<handler, limiter, spool, proof>>
    BY <1>3 DEF Chunk
  <2>2. /\ ReqMoves(r) /\ SameRate(r) /\ SameBatch(r) /\ SameFile(r) /\ SameReply(r)
        /\ req'[r].pc = "send"
    BY <1>0, <2>1, GotoMoves DEF Stages
  <2>3. LocalShape(req[r], req'[r])
    BY <2>1, <2>2 DEF LocalShape, Turn, Early, Sending, SameRate, SameBatch, SameFile, SameReply
  <2>4. SendMoves(r)
    BY <1>0, <1>3, ChunkSends
  <2>. QED BY <2>1, <2>2, <2>3, <2>4, ShapeShared DEF Shape
<1>4. CASE SendFails(r)
  <2>1. /\ req[r].pc = "send" /\ ChunkResult(r, FALSE, FALSE) /\ Goto(r, "merge")
        /\ UNCHANGED <<handler, limiter, spool, proof>>
    BY <1>4 DEF SendFails, ChunkResult
  <2>2. /\ ReqMoves(r) /\ SameRate(r) /\ SameBatch(r) /\ SameFile(r) /\ SameReply(r)
        /\ req'[r].pc = "merge"
    BY <1>0, <2>1, GotoMoves DEF Stages
  <2>3. LocalShape(req[r], req'[r])
    BY <2>1, <2>2 DEF LocalShape, Turn, Early, Sending, SameRate, SameBatch, SameFile, SameReply
  <2>4. SendMoves(r)
    BY <1>0, <2>1, FailSends
  <2>. QED BY <2>1, <2>2, <2>3, <2>4, ShapeShared DEF Shape
<1>5. CASE Merge(r)
  <2>1. req[r].pc = "merge" /\ Goto(r, "publish") /\ UNCHANGED <<handler, limiter, spool, proof>>
    BY <1>5 DEF Merge
  <2>2. /\ ReqMoves(r) /\ SameRate(r) /\ SameBatch(r) /\ SameFile(r) /\ SameReply(r)
        /\ req'[r].pc = "publish"
    BY <1>0, <2>1, GotoMoves DEF Stages
  <2>3. LocalShape(req[r], req'[r])
    BY <2>1, <2>2 DEF LocalShape, Turn, Early, Sending, SameRate, SameBatch, SameFile, SameReply
  <2>4. SendMoves(r)
    BY <1>0, <1>5, MergeSends
  <2>. QED BY <2>1, <2>2, <2>3, <2>4, ShapeShared DEF Shape
<1>6. CASE Publish(r)
  <2>. DEFINE complete == req[r].complete /\ send[r].canonical
  <2>1. req[r].pc = "publish" /\ UNCHANGED <<handler, limiter, spool, granted>>
    BY <1>6 DEF Publish
  <2>2. SharedShape(req[r])
    BY <2>1 DEF SharedShape, limiter, spool
  <2>3. complete \in BOOLEAN
    BY <1>0 DEF Typed, LocalsTyped, LocalType, AttemptType
  <2>4. \/ Verdict(r, FALSE, FALSE) \/ Verdict(r, TRUE, complete)
        \/ /\ send' = [send EXCEPT ![r] =
                 [NoAttempt EXCEPT !.left = AfterPrefix(send[r].left), !.mine = send[r].mine,
                                   !.sent = send[r].sent + PrefixLength(send[r].left)]]
           /\ req' = [req EXCEPT ![r].pc = "chunk", ![r].complete = complete]
    BY <1>6, Zenon DEF Publish
  <2>. HIDE DEF complete
  <2>5. CASE Verdict(r, FALSE, FALSE) \/ Verdict(r, TRUE, complete)
    BY <2>1, <2>2, <2>3, <2>5, ShapeVerdict
  <2>6. CASE /\ send' = [send EXCEPT ![r] =
                   [NoAttempt EXCEPT !.left = AfterPrefix(send[r].left), !.mine = send[r].mine,
                                     !.sent = send[r].sent + PrefixLength(send[r].left)]]
             /\ req' = [req EXCEPT ![r].pc = "chunk", ![r].complete = complete]
    <3>1. /\ SendMoves(r) /\ ReqMoves(r) /\ SameRate(r) /\ SameBatch(r) /\ SameFile(r)
          /\ req'[r].pc = "chunk" /\ req'[r].acked = req[r].acked
          /\ req'[r].raised = req[r].raised /\ req'[r].status = req[r].status
      BY <1>0, <2>3, <2>6, NextChunkMoves
    <3>2. LocalShape(req[r], req'[r])
      BY <2>1, <3>1 DEF LocalShape, Turn, Early, Sending, SameRate, SameBatch, SameFile
    <3>. QED BY <2>2, <3>1, <3>2 DEF Shape
  <2>. QED BY <2>4, <2>5, <2>6
<1>. QED BY <1>1, <1>2, <1>3, <1>4, <1>5, <1>6

(* The positions of a call are those of its batch.                         *)
LEMMA CallLengths ==
    ASSUME Base, NEW r \in Requests, req[r].pc = "send"
    PROVE  Len(send[r].batch) \in Nat /\ Len(send[r].where) = Len(send[r].batch)
<1>1. send[r].batch \in Seq(Sanitized) /\ send[r].left \in Seq(Sanitized) /\ send[r].sent \in Nat
  BY AttemptTyped DEF Base
<1>2. CASE send[r].again
  BY <1>1, <1>2 DEF Base, Acks, Forwarded, SecondCall
<1>3. CASE ~send[r].again
  <2>. DEFINE n == PrefixLength(send[r].left)
              a == send[r].sent
              where == send[r].where
  <2>1. n \in Nat
    BY <1>1, PrefixCuts, Zenon
  <2>2. Len(send[r].batch) = n /\ where = [i \in 1 .. n |-> a + i]
    BY <1>3 DEF Base, Acks, Forwarded, FirstCall
  <2>3. Len(where) = n
    <3>. HIDE DEF n, a, where
    <3>1. a \in Nat
      BY <1>1 DEF a
    <3>2. where \in [1 .. n -> Nat]
      BY <2>1, <2>2, <3>1
    <3>. QED BY <2>1, <3>2, FunctionAsSequence
  <2>. QED BY <2>1, <2>2, <2>3
<1>. QED BY <1>2, <1>3

(* What an answer leaves to the thread: the features that it was granted,  *)
(* and perhaps a second batch that needs no others.                        *)
Heard(r) ==
    /\ ReqMoves(r) /\ SameRate(r) /\ SameBatch(r) /\ SameFile(r)
    /\ req'[r].raised = req[r].raised /\ req'[r].status = req[r].status
    /\ req'[r].pc \in {"merge", "send"} /\ req[r].acked \subseteq req'[r].acked
    /\ SendMoves(r) /\ send'[r].mine = send[r].mine
    /\ features' \subseteq granted' /\ granted \subseteq granted'
    /\ req'[r].pc = "send" => \A i \in DOMAIN send'[r].batch : Backed(send'[r].batch[i], features')
    /\ req[r].pc = "send" /\ UNCHANGED <<handler, limiter, spool>>

(* A first answer does that.                                               *)
LEMMA HeardFirst ==
    ASSUME Base, NEW r \in Requests, NEW body \in Bodies(Len(send[r].batch)), NEW d,
           Observe(r, body, d)
    PROVE  Heard(r)
<1>. DEFINE n == Len(send[r].batch)
            ack == decide_acknowledgement(body, n, Required(r))
            supported == Observed(r, d, ack.kind = "acknowledged")
<1>1. req[r].pc = "send" /\ Learn(supported) /\ UNCHANGED <<handler, limiter, spool>>
  BY Zenon DEF Observe
<1>2. n \in Nat /\ n = Len(send[r].where) /\ Typed
  BY <1>1, CallLengths DEF Base
<1>3. Answered(r, n, ack, supported)
  <2>1. /\ n = Len(send[r].batch) /\ body \in Bodies(n)
        /\ ack = decide_acknowledgement(body, n, Required(r))
        /\ supported = Observed(r, d, ack.kind = "acknowledged")
    OBVIOUS
  <2>. HIDE DEF n, ack, supported
  <2>. QED BY <1>2, <2>1, ObserveMoves
<1>. HIDE DEF n, ack, supported
<1>4. features' = supported /\ granted' = granted \cup supported
  BY <1>1 DEF Learn
<1>5. /\ ReqMoves(r) /\ SameRate(r) /\ SameBatch(r) /\ SameFile(r)
      /\ req'[r].raised = req[r].raised /\ req'[r].status = req[r].status
      /\ SendMoves(r) /\ send'[r].mine = send[r].mine
      /\ req[r].acked \subseteq req'[r].acked
  BY <1>3, Zenon DEF Answered
<1>6. PICK R : /\ req'[r].pc = (IF R = {} THEN "merge" ELSE "send")
               /\ send'[r].batch \in [1 .. Cardinality(R) -> Sanitized]
               /\ \A i \in 1 .. Cardinality(R) : Backed(send'[r].batch[i], supported)
  BY <1>3, Zenon DEF Answered
<1>7. DOMAIN send'[r].batch = 1 .. Cardinality(R)
  BY <1>6
<1>8. \A i \in DOMAIN send'[r].batch : Backed(send'[r].batch[i], features')
  BY <1>4, <1>6, <1>7, Zenon
<1>9. req'[r].pc \in {"merge", "send"}
  BY <1>6
<1>. QED BY <1>1, <1>4, <1>5, <1>8, <1>9 DEF Heard

(* And so does a second one.                                               *)
LEMMA HeardAgain ==
    ASSUME Base, NEW r \in Requests, NEW body \in Bodies(Len(send[r].batch)), NEW d,
           ObserveRetry(r, body, d)
    PROVE  Heard(r)
<1>. DEFINE n == Len(send[r].batch)
            ack == decide_acknowledgement(body, n, TRUE)
            supported == Observed(r, d, ack.kind = "acknowledged")
<1>1. req[r].pc = "send" /\ Learn(supported) /\ UNCHANGED <<handler, limiter, spool>>
  BY Zenon DEF ObserveRetry
<1>2. n \in Nat /\ n = Len(send[r].where) /\ Typed
  BY <1>1, CallLengths DEF Base
<1>3. /\ ReqMoves(r) /\ SameRate(r) /\ SameBatch(r) /\ SameFile(r)
      /\ req'[r].raised = req[r].raised /\ req'[r].status = req[r].status /\ req'[r].pc = "merge"
      /\ SendMoves(r) /\ send'[r].mine = send[r].mine /\ req[r].acked \subseteq req'[r].acked
  <2>1. n = Len(send[r].batch) /\ body \in Bodies(n) /\ ack = decide_acknowledgement(body, n, TRUE)
    OBVIOUS
  <2>. HIDE DEF n, ack
  <2>. QED BY <1>2, <2>1, RetryMoves
<1>. HIDE DEF n, ack, supported
<1>4. features' = supported /\ granted' = granted \cup supported
  BY <1>1 DEF Learn
<1>. QED BY <1>1, <1>3, <1>4 DEF Heard

(* A step of a request, in its shape.                                      *)
LEMMA StepShape ==
    ASSUME Base, NEW r \in Requests, Step(r)
    PROVE  Shape(r)
<1>1. CASE Arrive(r) \/ RateRead(r) \/ RateStore(r) \/ ScreenCandidate(r) \/ EmptyBatch(r)
  BY <1>1, ShapeScreening
<1>2. CASE \/ Lookup(r) \/ Create(r) \/ (\E o \in WriteOutcomes : WriteTemp(r, o))
           \/ Replace(r) \/ ReplaceFails(r) \/ Cleanup(r)
  BY <1>2, ShapeFiling
<1>3. CASE Forward(r) \/ GiveUp(r) \/ Chunk(r) \/ SendFails(r) \/ Merge(r) \/ Publish(r)
  BY <1>3, ShapeForwarding
<1>4. CASE \E body \in Bodies(Len(send[r].batch)), d \in Descriptors :
              Observe(r, body, d) \/ ObserveRetry(r, body, d)
  <2>1. Heard(r)
    BY <1>4, HeardFirst, HeardAgain
  <2>2. /\ ReqMoves(r) /\ SameRate(r) /\ SameBatch(r) /\ SameFile(r) /\ SendMoves(r)
        /\ req'[r].raised = req[r].raised /\ req'[r].status = req[r].status
        /\ req'[r].pc \in {"merge", "send"}
        /\ req[r].pc = "send" /\ UNCHANGED <<handler, limiter, spool>>
    BY <2>1 DEF Heard
  <2>3. LocalShape(req[r], req'[r])
    BY <2>2 DEF LocalShape, Turn, Early, Sending, SameRate, SameBatch, SameFile
  <2>4. SharedShape(req[r])
    BY <2>2 DEF SharedShape, limiter, spool
  <2>. QED BY <2>2, <2>3, <2>4 DEF Shape
<1>5. CASE Mark(r)
  <2>1. req[r].pc = "mark" /\ UNCHANGED <<handler, limiter, transports, writers, files, temps, proof, send>>
    BY <1>5 DEF Mark
  <2>2. /\ ReqMoves(r) /\ SameRate(r) /\ SameBatch(r) /\ SameFile(r) /\ SameReply(r)
        /\ req'[r].pc = "accept"
    <3>1. Goto(r, "accept") /\ "accept" \in Stages /\ Typed
      BY <1>5 DEF Mark, Stages, Base
    <3>. QED BY <3>1, GotoMoves
  <2>3. LocalShape(req[r], req'[r])
    BY <2>1, <2>2 DEF LocalShape, Turn, Early, Sending, SameRate, SameBatch, SameFile, SameReply
  <2>4. SharedShape(req[r])
    BY <2>1 DEF SharedShape, limiter, proof
  <2>. QED BY <2>1, <2>2, <2>3, <2>4, SendSame DEF Shape, Base
<1>6. CASE Accept(r)
  <2>1. req[r].pc = "accept" /\ UNCHANGED <<handler, limiter, spool, proof, send>>
    BY <1>6 DEF Accept
  <2>2. PICK fails \in AcceptFails :
            /\ ReqMoves(r) /\ SameRate(r) /\ SameBatch(r)
            /\ req'[r].acked = req[r].acked /\ req'[r].raised = fails
            /\ req'[r].wrote = req[r].wrote
            /\ req'[r].status = IF fails THEN 500 ELSE FinalStatus(req[r])
            /\ req'[r].pc = "done"
    BY <1>6, AcceptMoves DEF Base
  <2>3. FinalStatus(req[r]) \in {202, 400}
    BY DEF FinalStatus
  <2>4. req'[r].raised \/ req'[r].status # 500
    BY <2>2, <2>3, RelayAssumption
  <2>5. LocalShape(req[r], req'[r])
    BY <2>1, <2>2, <2>4 DEF LocalShape, Turn, Early, Sending, SameRate, SameBatch
  <2>. QED BY <2>1, <2>2, <2>5, SendSame, ShapeShared DEF Shape, Base
<1>. QED BY <1>1, <1>2, <1>3, <1>4, <1>5, <1>6 DEF Step

(* The actions of the stages that the invariants are about.                *)
LEMMA StageActions ==
    ASSUME NEW r \in Requests, Step(r)
    PROVE  /\ req[r].pc = "arrive" => Arrive(r)
           /\ req[r].pc = "rate" => RateRead(r)
           /\ req[r].pc = "store" => RateStore(r)
           /\ req[r].pc = "lookup" => Lookup(r)
           /\ req[r].pc = "create" => Create(r)
           /\ req[r].pc = "write" => \E o \in WriteOutcomes : WriteTemp(r, o)
           /\ req[r].pc = "replace" => Replace(r) \/ ReplaceFails(r)
           /\ req[r].pc = "cleanup" => Cleanup(r)
           /\ req[r].pc = "chunk" => GiveUp(r) \/ Chunk(r)
           /\ req[r].pc = "send" =>
                 \/ SendFails(r)
                 \/ \E body \in Bodies(Len(send[r].batch)), d \in Descriptors :
                       Observe(r, body, d) \/ ObserveRetry(r, body, d)
           /\ req[r].pc = "merge" => Merge(r)
           /\ req[r].pc = "publish" => Publish(r)
           /\ req[r].pc = "mark" => Mark(r)
           /\ req[r].pc = "accept" => Accept(r)
<1>. DEFINE answer == \E body \in Bodies(Len(send[r].batch)), d \in Descriptors :
                         Observe(r, body, d) \/ ObserveRetry(r, body, d)
            write == \E o \in WriteOutcomes : WriteTemp(r, o)
<1>1. /\ Arrive(r) => req[r].pc = "arrive"
      /\ RateRead(r) => req[r].pc = "rate"
      /\ RateStore(r) => req[r].pc = "store"
      /\ ScreenCandidate(r) \/ EmptyBatch(r) => req[r].pc = "screen"
  BY DEF Arrive, RateRead, RateStore, ScreenCandidate, EmptyBatch
<1>2. /\ Lookup(r) => req[r].pc = "lookup"
      /\ Create(r) => req[r].pc = "create"
      /\ write => req[r].pc = "write"
      /\ Replace(r) \/ ReplaceFails(r) => req[r].pc = "replace"
      /\ Cleanup(r) => req[r].pc = "cleanup"
  BY DEF Lookup, Create, WriteTemp, Replace, ReplaceFails, Cleanup
<1>3. /\ Forward(r) => req[r].pc = "forward"
      /\ GiveUp(r) \/ Chunk(r) => req[r].pc = "chunk"
      /\ SendFails(r) => req[r].pc = "send"
      /\ Merge(r) => req[r].pc = "merge"
      /\ Publish(r) => req[r].pc = "publish"
      /\ Mark(r) => req[r].pc = "mark"
      /\ Accept(r) => req[r].pc = "accept"
  BY Zenon DEF Forward, GiveUp, Chunk, SendFails, Merge, Publish, Mark, Accept
<1>4. answer => req[r].pc = "send"
  BY Zenon DEF Observe, ObserveRetry
<1>5. \/ Arrive(r) \/ RateRead(r) \/ RateStore(r) \/ ScreenCandidate(r) \/ EmptyBatch(r)
      \/ Lookup(r) \/ Create(r) \/ write \/ Replace(r) \/ ReplaceFails(r) \/ Cleanup(r)
      \/ Forward(r) \/ GiveUp(r) \/ Chunk(r) \/ SendFails(r) \/ answer
      \/ Merge(r) \/ Publish(r) \/ Mark(r) \/ Accept(r)
  BY Zenon DEF Step
<1>6. /\ req[r].pc = "write" => write
      /\ req[r].pc = "send" => SendFails(r) \/ answer
  <2>. HIDE DEF answer, write
  <2>. QED BY <1>1, <1>2, <1>3, <1>4, <1>5
<1>. HIDE DEF answer, write
<1>7. /\ req[r].pc = "arrive" => Arrive(r)
      /\ req[r].pc = "rate" => RateRead(r)
      /\ req[r].pc = "store" => RateStore(r)
      /\ req[r].pc = "lookup" => Lookup(r)
      /\ req[r].pc = "create" => Create(r)
      /\ req[r].pc = "replace" => Replace(r) \/ ReplaceFails(r)
      /\ req[r].pc = "cleanup" => Cleanup(r)
  BY <1>1, <1>2, <1>3, <1>4, <1>5
<1>8. /\ req[r].pc = "chunk" => GiveUp(r) \/ Chunk(r)
      /\ req[r].pc = "merge" => Merge(r)
      /\ req[r].pc = "publish" => Publish(r)
      /\ req[r].pc = "mark" => Mark(r)
      /\ req[r].pc = "accept" => Accept(r)
  BY <1>1, <1>2, <1>3, <1>4, <1>5
<1>. QED BY <1>6, <1>7, <1>8 DEF answer, write

-----------------------------------------------------------------------------
(* What is known of a request at its stage. Spooling does not change.      *)

Staged(r) ==
    /\ req[r].pc \in Filing \cup {"mark"} => Spooling
    /\ req[r].pc \in Filing \cup After => req[r].events # <<>>
    /\ req[r].pc # "done" => req[r].status = 0 /\ ~req[r].raised
    /\ req[r].pc \in Early => req[r].events = <<>>
    /\ req[r].pc = "screen" /\ req[r].input.batch = <<>> => req[r].events = <<>>
    /\ Spooling /\ req[r].pc \in After => req[r].path \in DOMAIN files

Stage == (\A r \in Requests : Staged(r)) /\ markers \subseteq DOMAIN files

(* Finished files stay; a file is in place before its batch is forwarded.  *)
LEMMA FilesGrow ==
    ASSUME Base, NEW r \in Requests, Step(r)
    PROVE  /\ DOMAIN files \subseteq DOMAIN files'
           /\ req[r].pc = "replace" /\ req'[r].pc # "cleanup" => req[r].path \in DOMAIN files'
<1>1. CASE req[r].pc # "replace"
  BY <1>1, StepShape DEF Shape, SharedShape
<1>2. CASE req[r].pc = "replace" /\ Replace(r)
  <2>1. DOMAIN files' = DOMAIN files \cup {req[r].path}
    BY <1>2, ReplaceFiles DEF Base
  <2>. QED BY <2>1
<1>3. CASE req[r].pc = "replace" /\ ReplaceFails(r)
  <2>1. files' = files
    BY <1>3 DEF ReplaceFails
  <2>2. req'[r].pc = "cleanup"
    BY <1>3, ReplaceFailsMoves DEF Base
  <2>. QED BY <2>1, <2>2
<1>. QED BY <1>1, <1>2, <1>3, StageActions

(* A step of a request leads from stage to stage.                          *)
LEMMA StageStep ==
    ASSUME Base, Stage, NEW r \in Requests, Step(r)
    PROVE  Stage'
<1>1. /\ ReqMoves(r) /\ LocalShape(req[r], req'[r]) /\ SharedShape(req[r])
  BY StepShape DEF Shape
<1>2. Spooling' = Spooling
  BY <1>1 DEF SharedShape, Spooling
<1>3. /\ DOMAIN files \subseteq DOMAIN files'
      /\ req[r].pc = "replace" /\ req'[r].pc # "cleanup" => req[r].path \in DOMAIN files'
  BY FilesGrow
<1>4. Staged(r)
  BY DEF Stage
<1>5. Staged(r)'
  <2>1. req[r].pc \in Stages /\ req'[r].pc \in Stages
    BY <1>1 DEF ReqMoves, Base, Typed, LocalsTyped, LocalType
  <2>2. (req[r].pc \in Filing \cup {"mark"} => Spooling)'
    BY <1>1, <1>2, <1>4, <2>1 DEF Staged, LocalShape, Turn, Early, Filing, After, Sending, Stages
  <2>3. (req[r].pc \in Filing \cup After => req[r].events # <<>>)'
    BY <1>1, <1>4, <2>1 DEF Staged, LocalShape, Turn, Early, Filing, After, Sending, Stages
  <2>4. (req[r].pc # "done" => req[r].status = 0 /\ ~req[r].raised)'
    BY <1>1, <1>4, <2>1 DEF Staged, LocalShape, Turn
  <2>5. /\ (req[r].pc \in Early => req[r].events = <<>>)'
        /\ (req[r].pc = "screen" /\ req[r].input.batch = <<>> => req[r].events = <<>>)'
    BY <1>1, <1>4, <2>1 DEF Staged, LocalShape, Turn, Early, Sending, Stages
  <2>6. (Spooling /\ req[r].pc \in After => req[r].path \in DOMAIN files)'
    BY <1>1, <1>2, <1>3, <1>4, <2>1 DEF Staged, LocalShape, Turn, Early, After, Sending, Stages
  <2>. QED BY <2>2, <2>3, <2>4, <2>5, <2>6 DEF Staged
<1>6. ASSUME NEW x \in Requests, x # r PROVE Staged(x)'
  <2>1. req'[x] = req[x] /\ Staged(x)
    BY <1>1, <1>6 DEF ReqMoves, Stage
  <2>. QED BY <1>2, <1>3, <2>1 DEF Staged
<1>7. markers' \subseteq DOMAIN files'
  <2>1. CASE req[r].pc # "mark"
    BY <1>1, <1>3, <2>1 DEF SharedShape, Stage
  <2>2. CASE req[r].pc = "mark"
    <3>1. Mark(r) /\ Spooling /\ req[r].path \in DOMAIN files
      BY <1>4, <2>2, StageActions DEF Staged, After
    <3>. QED BY <1>3, <3>1 DEF Mark, Stage
  <2>. QED BY <2>1, <2>2
<1>. QED BY <1>5, <1>6, <1>7 DEF Stage

(* So every request is at a stage of its kind.                             *)
LEMMA StageAlways == Spec => []Stage
<1>1. Init => Stage
  <2>. SUFFICES ASSUME Init PROVE Stage
    OBVIOUS
  <2>1. markers = {} /\ \A r \in Requests : req[r] = NewRequest
    BY DEF Init
  <2>2. /\ NewRequest.pc = "arrive" /\ NewRequest.status = 0 /\ NewRequest.raised = FALSE
        /\ NewRequest.events = <<>>
    BY DEF NewRequest
  <2>. QED BY <2>1, <2>2 DEF Stage, Staged, Filing, After, Early
<1>2. Base /\ Stage /\ [Next]_vars => Stage'
  <2>. SUFFICES ASSUME Base, Stage, [Next]_vars PROVE Stage'
    OBVIOUS
  <2>1. ASSUME NEW r \in Requests, Step(r) PROVE Stage'
    BY <2>1, StageStep
  <2>2. CASE Tick \/ UNCHANGED vars
    <3>1. handler' = handler /\ files' = files /\ markers' = markers /\ req' = req
      BY <2>2 DEF Tick, vars, spool
    <3>. QED BY <3>1 DEF Stage, Staged, Spooling
  <2>. QED BY <2>1, <2>2 DEF Next, Finished
<1>. QED BY <1>1, <1>2, BaseAlways, PTL DEF Spec

(* Types: every value of the relay is of its kind, events are counted in   *)
(* the order of their candidates, and only a finished file is marked.      *)
THEOREM TypeCorrect == Spec => []TypeOK
<1>1. Base /\ Stage => TypeOK
  <2>. SUFFICES ASSUME Base, Stage PROVE TypeOK
    OBVIOUS
  <2>1. SharedTyped /\ LocalsTyped
    BY DEF Base, Typed
  <2>2. ASSUME NEW r \in Requests
        PROVE  /\ req[r].rejected + Len(req[r].events) < req[r].index
               /\ req[r].acked \subseteq DOMAIN req[r].events
               /\ req[r].status \in {0, 202, 204, 400, 403, 405, 413, 429, 500}
    <3>1. req[r].events \in Seq(Sanitized) /\ req[r].status \in Statuses
      BY <2>1 DEF LocalsTyped, LocalType
    <3>2. req[r].acked \subseteq 1 .. Len(req[r].events) /\ req[r].rejected + Len(req[r].events) < req[r].index
      BY DEF Base, Typed, Consistency, Acks, Forwarded
    <3>3. DOMAIN req[r].events = 1 .. Len(req[r].events)
      BY <3>1
    <3>. QED BY <3>1, <3>2, <3>3 DEF Statuses
  <2>. QED BY <2>1, <2>2 DEF TypeOK, SharedTyped, Stage, Stamp, Path, WriterType
<1>. QED BY <1>1, BaseAlways, StageAlways, PTL

(* README.md:105: no call carries an event that the destination has        *)
(* acknowledged.                                                           *)
THEOREM NeverResent == Spec => []NoResend
<1>1. Base => NoResend
  <2>. SUFFICES ASSUME Base, NEW r \in Requests, req[r].pc = "send", NEW i \in DOMAIN send[r].where
                PROVE  send[r].where[i] \notin req[r].acked
    BY DEF NoResend
  <2>1. send[r].left \in Seq(Sanitized) /\ send[r].where \in Seq(Nat) /\ send[r].sent \in Nat
    BY AttemptTyped DEF Base
  <2>2. CASE send[r].again
    <3>1. DOMAIN send[r].where = 1 .. Len(send[r].where)
      BY <2>1
    <3>. QED BY <2>2, <3>1 DEF Base, Acks, Forwarded, SecondCall
  <2>3. CASE ~send[r].again
    <3>. DEFINE n == PrefixLength(send[r].left)
                a == send[r].sent
    <3>1. n \in Nat
      BY <2>1, PrefixCuts, Zenon
    <3>2. /\ send[r].where = [j \in 1 .. n |-> a + j] /\ req[r].acked \subseteq 1 .. a
      BY <2>3 DEF Base, Acks, Forwarded, FirstCall
    <3>3. a \in Nat
      BY <2>1
    <3>. HIDE DEF n, a
    <3>4. i \in 1 .. n /\ send[r].where[i] = a + i
      BY <3>2
    <3>5. a + i \notin 1 .. a
      BY <3>1, <3>3, <3>4
    <3>. QED BY <3>2, <3>4, <3>5
  <2>. QED BY <2>2, <2>3
<1>. QED BY <1>1, BaseAlways, PTL

-----------------------------------------------------------------------------
(* Failures of the file system.                                            *)

Failed(q) == q.wrote \in {"open", "write", "replace"}

(* While the file system has failed no one, every thread finds its         *)
(* temporary file when it renames it, and none has come to remove any.     *)
Sound ==
    \A r \in Requests :
        /\ req[r].pc # "cleanup" /\ (req[r].pc = "replace" => TempOf(r) \in temps)
        /\ Spooling /\ req[r].pc = "done" /\ req[r].status = 500 => req[r].raised

Rooted ==
    /\ \A r \in Requests : req[r].pc \in Early \cup {"screen", "lookup", "create", "write"}
                            => req[r].wrote = "none"
    /\ (\A q \in Requests : ~Failed(req[q])) => Sound

(* A write or a rename of the file system's own fails, or a thread that    *)
(* another one failed removed the file.                                    *)
LEMMA RootedStep ==
    ASSUME Base, Stage, Rooted, NEW r \in Requests, Step(r)
    PROVE  Rooted'
<1>1. /\ ReqMoves(r) /\ LocalShape(req[r], req'[r]) /\ SharedShape(req[r])
  BY StepShape DEF Shape
<1>2. req[r].pc \in Stages /\ req'[r].pc \in Stages /\ Typed
  BY <1>1 DEF ReqMoves, Base, Typed, LocalsTyped, LocalType
<1>3. Spooling' = Spooling
  BY <1>1 DEF SharedShape, Spooling
<1>4. \A x \in Requests \ {r} : req'[x] = req[x]
  BY <1>1 DEF ReqMoves
<1>5. req[r].pc = "write" => \E o \in WriteOutcomes :
           /\ req'[r].path = <<now, writers[req[r].writer].sequence + 1, FileName[req[r].input.service]>>
           /\ req'[r].wrote = o /\ req'[r].pc = IF o \in {"ok", "short"} THEN "replace" ELSE "cleanup"
           /\ temps' = IF o # "open" THEN temps \cup {[path |-> req'[r].path, by |-> r]} ELSE temps
           /\ o # "replace"
  <2>. SUFFICES ASSUME req[r].pc = "write"
                PROVE  \E o \in WriteOutcomes :
           /\ req'[r].path = <<now, writers[req[r].writer].sequence + 1, FileName[req[r].input.service]>>
           /\ req'[r].wrote = o /\ req'[r].pc = IF o \in {"ok", "short"} THEN "replace" ELSE "cleanup"
           /\ temps' = IF o # "open" THEN temps \cup {[path |-> req'[r].path, by |-> r]} ELSE temps
           /\ o # "replace"
    OBVIOUS
  <2>1. PICK o \in WriteOutcomes : WriteTemp(r, o)
    BY StageActions
  <2>2. req[r].input.service \in Services /\ req[r].writer \in 1 .. Len(writers)
    BY <1>2, ServiceKnown DEF Typed, Consistency
  <2>. DEFINE path == <<now, writers[req[r].writer].sequence + 1, FileName[req[r].input.service]>>
  <2>3. /\ req'[r].path = path /\ req'[r].wrote = o
        /\ req'[r].pc = IF o \in {"ok", "short"} THEN "replace" ELSE "cleanup"
    BY <1>2, <2>1, <2>2, WriteMoves
  <2>4. temps' = (IF o # "open" THEN temps \cup {[path |-> path, by |-> r]} ELSE temps) /\ o # "replace"
    BY <2>1 DEF WriteTemp
  <2>. HIDE DEF path
  <2>5. temps' = IF o # "open" THEN temps \cup {[path |-> req'[r].path, by |-> r]} ELSE temps
    BY <2>3, <2>4
  <2>. QED BY <2>3, <2>4, <2>5 DEF path
<1>6. req[r].pc = "replace" =>
        \/ /\ temps' = temps \ {TempOf(r)} /\ req'[r].wrote = req[r].wrote
           /\ req'[r].pc \in {"forward", "accept"}
        \/ TempOf(r) \in temps /\ req'[r].wrote = "replace"
        \/ TempOf(r) \notin temps /\ req'[r].wrote = req[r].wrote
  <2>. SUFFICES ASSUME req[r].pc = "replace"
                PROVE  \/ /\ temps' = temps \ {TempOf(r)} /\ req'[r].wrote = req[r].wrote
                          /\ req'[r].pc \in {"forward", "accept"}
                       \/ TempOf(r) \in temps /\ req'[r].wrote = "replace"
                       \/ TempOf(r) \notin temps /\ req'[r].wrote = req[r].wrote
    OBVIOUS
  <2>1. CASE Replace(r)
    <3>1. PICK pc \in {"forward", "accept"} : Goto(r, pc)
      BY <2>1 DEF Replace
    <3>2. pc \in Stages
      BY DEF Stages
    <3>. QED BY <1>2, <2>1, <3>1, <3>2, GotoMoves DEF SameFile, Replace
  <2>2. CASE ReplaceFails(r)
    BY <1>2, <2>2, ReplaceFailsMoves
  <2>. QED BY <2>1, <2>2, StageActions
<1>7. \A x \in Requests : (req[x].pc \in Early \cup {"screen", "lookup", "create", "write"}
                            => req[x].wrote = "none")'
  <2>. TAKE x \in Requests
  <2>1. CASE x # r
    BY <1>4, <2>1 DEF Rooted
  <2>2. CASE x = r
    BY <1>1, <1>2, <2>2 DEF Rooted, LocalShape, Turn, Early, Sending, Stages
  <2>. QED BY <2>1, <2>2
<1>8. ASSUME \A q \in Requests : ~Failed(req'[q]) PROVE Sound'
  <2>1. \A q \in Requests : ~Failed(req[q])
    <3>. TAKE q \in Requests
    <3>1. CASE q # r
      BY <1>4, <1>8, <3>1
    <3>2. CASE q = r
      <4>1. CASE req[r].pc \notin {"write", "replace"}
        BY <1>1, <1>8, <3>2, <4>1 DEF LocalShape, Failed
      <4>2. CASE req[r].pc = "write"
        BY <3>2, <4>2 DEF Rooted, Failed
      <4>3. CASE req[r].pc = "replace"
        BY <1>6, <1>8, <3>2, <4>3 DEF Failed
      <4>. QED BY <4>1, <4>2, <4>3
    <3>. QED BY <3>1, <3>2
  <2>2. Sound
    BY <2>1 DEF Rooted
  <2>3. req[r].pc # "cleanup"
    BY <2>2 DEF Sound
  <2>4. /\ req'[r].pc # "cleanup"
        /\ req'[r].pc = "replace" => [path |-> req'[r].path, by |-> r] \in temps'
    <3>1. CASE req[r].pc = "write"
      <4>1. PICK o \in WriteOutcomes :
               /\ req'[r].wrote = o /\ req'[r].pc = IF o \in {"ok", "short"} THEN "replace" ELSE "cleanup"
               /\ temps' = IF o # "open" THEN temps \cup {[path |-> req'[r].path, by |-> r]} ELSE temps
               /\ o # "replace"
        BY <1>5, <3>1
      <4>2. o \in {"ok", "short"}
        BY <1>8, <4>1, RelayAssumption DEF Failed
      <4>. QED BY <4>1, <4>2
    <3>2. CASE req[r].pc = "replace"
      <4>1. TempOf(r) \in temps
        BY <2>2, <3>2 DEF Sound
      <4>2. req'[r].wrote # "replace"
        BY <1>8 DEF Failed
      <4>. QED BY <1>6, <3>2, <4>1, <4>2
    <3>3. CASE req[r].pc \notin {"write", "replace"}
      BY <1>1, <1>2, <2>3, <3>3 DEF LocalShape, Turn, Early, Sending, Stages
    <3>. QED BY <3>1, <3>2, <3>3
  <2>5. \A x \in Requests \ {r} : TempOf(x) \in temps => TempOf(x) \in temps'
    <3>. TAKE x \in Requests \ {r}
    <3>. HAVE TempOf(x) \in temps
    <3>1. CASE req[r].pc = "write"
      BY <1>5, <3>1
    <3>2. CASE req[r].pc = "replace"
      <4>1. TempOf(x) # TempOf(r)
        BY DEF TempOf
      <4>2. TempOf(r) \in temps /\ req'[r].wrote # "replace"
        BY <1>8, <2>2, <3>2 DEF Sound, Failed
      <4>. QED BY <1>6, <3>2, <4>1, <4>2
    <3>3. CASE req[r].pc \notin {"write", "replace"}
      BY <1>1, <2>3, <3>3 DEF SharedShape
    <3>. QED BY <3>1, <3>2, <3>3
  <2>6. Spooling /\ req'[r].pc = "done" /\ req'[r].status = 500 => req'[r].raised
    BY <1>1, <1>2, <2>3 DEF LocalShape, Turn, Early, Sending, Stages
  <2>7. ASSUME NEW x \in Requests
        PROVE  /\ req'[x].pc # "cleanup"
               /\ req'[x].pc = "replace" => [path |-> req'[x].path, by |-> x] \in temps'
               /\ Spooling /\ req'[x].pc = "done" /\ req'[x].status = 500 => req'[x].raised
    <3>1. CASE x = r
      BY <2>4, <2>6, <3>1
    <3>2. CASE x # r
      BY <1>4, <2>2, <2>5, <3>2 DEF Sound, TempOf
    <3>. QED BY <3>1, <3>2
  <2>. QED BY <1>3, <2>7 DEF Sound, TempOf
<1>. QED BY <1>7, <1>8 DEF Rooted, Failed

(* AtomicRelayFileTransport.write (relay_delivery.py:84): however the      *)
(* threads that write remove each other's temporary files, a request is    *)
(* answered 500 for its file only if the file system failed some request's *)
(* own open, write or rename.                                              *)
THEOREM FailuresHaveRoots == Spec => []FailuresRooted
<1>1. Init => Rooted
  <2>. SUFFICES ASSUME Init PROVE Rooted
    OBVIOUS
  <2>1. \A r \in Requests : req[r] = NewRequest
    BY DEF Init
  <2>2. NewRequest.pc = "arrive" /\ NewRequest.wrote = "none"
    BY DEF NewRequest
  <2>. QED BY <2>1, <2>2 DEF Rooted, Sound
<1>2. Base /\ Stage /\ Rooted /\ [Next]_vars => Rooted'
  <2>. SUFFICES ASSUME Base, Stage, Rooted, [Next]_vars PROVE Rooted'
    OBVIOUS
  <2>1. ASSUME NEW r \in Requests, Step(r) PROVE Rooted'
    BY <2>1, RootedStep
  <2>2. CASE Tick \/ UNCHANGED vars
    <3>1. handler' = handler /\ temps' = temps /\ req' = req
      BY <2>2 DEF Tick, vars, spool
    <3>. QED BY <3>1 DEF Rooted, Sound, Failed, TempOf, Spooling
  <2>. QED BY <2>1, <2>2 DEF Next, Finished
<1>3. Rooted => FailuresRooted
  BY DEF Rooted, Sound, Failed, FailuresRooted
<1>. QED BY <1>1, <1>2, <1>3, BaseAlways, StageAlways, PTL DEF Spec

-----------------------------------------------------------------------------
(* What the destination is known to support.                               *)

Earned(r) ==
    /\ req[r].pc = "publish" => send[r].mine \subseteq granted
    /\ req[r].pc = "send" => \A i \in DOMAIN send[r].batch : Backed(send[r].batch[i], granted)

Earnings == features \subseteq granted /\ \A r \in Requests : Earned(r)

(* Features are only taken from the pin, an answer or another thread.      *)
LEMMA EarningsStep ==
    ASSUME Base, Earnings, NEW r \in Requests, Step(r)
    PROVE  Earnings'
<1>1. /\ ReqMoves(r) /\ SendMoves(r) /\ LocalShape(req[r], req'[r]) /\ SharedShape(req[r]) /\ Typed
  BY StepShape DEF Shape, Base
<1>2. features' \subseteq granted' /\ granted \subseteq granted' /\ Earned(r)'
  <2>1. CASE req[r].pc \notin {"chunk", "send", "merge", "publish"}
    <3>1. features' = features /\ granted' = granted
      BY <1>1, <2>1 DEF SharedShape
    <3>2. req'[r].pc # "publish" /\ req'[r].pc # "send"
      <4>1. req[r].pc \in Stages
        BY <1>1 DEF Typed, LocalsTyped, LocalType
      <4>. QED BY <1>1, <2>1, <4>1 DEF LocalShape, Turn, Early, Stages
    <3>. QED BY <3>1, <3>2 DEF Earnings, Earned
  <2>2. CASE req[r].pc = "chunk" /\ Chunk(r)
    <3>. DEFINE n == PrefixLength(send[r].left)
    <3>1. features' = features /\ granted' = granted /\ req'[r].pc # "publish"
      BY <1>1, <2>2 DEF SharedShape, LocalShape, Turn
    <3>2. \A x : x = n => /\ send'[r].batch \in [1 .. x -> Sanitized]
                          /\ \A i \in 1 .. x : Backed(send'[r].batch[i], features)
      BY <1>1, <2>2, ChunkSends, Zenon
    <3>. HIDE DEF n
    <3>3. \A i \in DOMAIN send'[r].batch : Backed(send'[r].batch[i], features)
      BY <3>2
    <3>. QED BY <3>1, <3>3 DEF Earnings, Earned, Backed
  <2>3. CASE req[r].pc = "chunk" /\ GiveUp(r)
    <3>1. features' = features /\ granted' = granted
      BY <1>1, <2>3 DEF SharedShape
    <3>2. Verdict(r, FALSE, FALSE)
      BY <2>3 DEF GiveUp
    <3>3. req'[r].pc = CASE Spooling -> IF FALSE THEN "mark" ELSE "accept"
                         [] ~Spooling /\ FALSE -> "accept"
                         [] OTHER -> "done"
      BY <1>1, <3>2, VerdictMoves
    <3>4. req'[r].pc \in {"accept", "done"}
      BY <3>3
    <3>. QED BY <3>1, <3>4 DEF Earnings, Earned
  <2>4. CASE req[r].pc = "send" /\ SendFails(r)
    <3>1. features' = features /\ granted' = granted /\ Goto(r, "merge")
      BY <2>4 DEF SendFails, ChunkResult, proof
    <3>2. req'[r].pc = "merge"
      BY <1>1, <3>1, GotoMoves DEF Stages
    <3>. QED BY <3>1, <3>2 DEF Earnings, Earned
  <2>5. CASE req[r].pc = "send" /\ Heard(r)
    BY <2>5 DEF Heard, Earned, Backed
  <2>6. CASE req[r].pc = "merge"
    <3>1. send'[r].mine = send[r].mine \cap features
      BY <1>1, <2>6, StageActions, MergeSends
    <3>2. features' = features /\ granted' = granted /\ req'[r].pc = "publish"
      BY <1>1, <2>6 DEF SharedShape, LocalShape, Turn
    <3>. QED BY <3>1, <3>2 DEF Earnings, Earned
  <2>7. CASE req[r].pc = "publish"
    <3>1. features' = send[r].mine
      BY <2>7, StageActions, Zenon DEF Publish
    <3>2. granted' = granted /\ req'[r].pc \in {"chunk", "mark", "accept", "done"}
      BY <1>1, <2>7 DEF SharedShape, LocalShape, Turn
    <3>. QED BY <2>7, <3>1, <3>2 DEF Earnings, Earned
  <2>. QED BY <2>1, <2>2, <2>3, <2>4, <2>5, <2>6, <2>7, StageActions, HeardFirst, HeardAgain
<1>3. ASSUME NEW x \in Requests, x # r PROVE Earned(x)'
  <2>1. req'[x] = req[x] /\ send'[x] = send[x] /\ Earned(x)
    BY <1>1, <1>3 DEF ReqMoves, SendMoves, Earnings
  <2>. QED BY <1>2, <2>1 DEF Earned, Backed
<1>. QED BY <1>2, <1>3 DEF Earnings

(* README.md:101: whatever the order in which concurrent sends publish,    *)
(* the relay believes in and sends only the evidence that the pin or a     *)
(* valid acknowledgement granted.                                          *)
THEOREM SupportEarned == Spec => []ProofEarned
<1>1. Init => Earnings
  <2>. SUFFICES ASSUME Init PROVE Earnings
    OBVIOUS
  <2>1. features = granted /\ \A r \in Requests : req[r] = NewRequest
    BY DEF Init
  <2>2. NewRequest.pc = "arrive"
    BY DEF NewRequest
  <2>. QED BY <2>1, <2>2 DEF Earnings, Earned
<1>2. Base /\ Earnings /\ [Next]_vars => Earnings'
  <2>. SUFFICES ASSUME Base, Earnings, [Next]_vars PROVE Earnings'
    OBVIOUS
  <2>1. ASSUME NEW r \in Requests, Step(r) PROVE Earnings'
    BY <2>1, EarningsStep
  <2>2. CASE Tick \/ UNCHANGED vars
    <3>1. features' = features /\ granted' = granted /\ req' = req /\ send' = send
      BY <2>2 DEF Tick, vars, proof
    <3>. QED BY <3>1 DEF Earnings, Earned
  <2>. QED BY <2>1, <2>2 DEF Next, Finished
<1>3. Earnings => ProofEarned
  BY Zenon DEF Earnings, Earned, Backed, ProofEarned
<1>. QED BY <1>1, <1>2, <1>3, BaseAlways, PTL DEF Spec

-----------------------------------------------------------------------------
(* The rate limiter.                                                       *)

Admitting(q) == q.pc \notin {"arrive", "rate"} /\ Refusal(q.input) = 0 /\ ~q.limited

(* Requests that were admitted less than a window before t.                *)
Within(all, t) == {q \in Requests : Admitting(all[q]) /\ all[q].at > t - RateWindow}

(* A stamp of the window stands for a request that was admitted then.      *)
Honest(all, s) == Admitting(all[s.by]) /\ all[s.by].at = s.at

Window ==
    /\ \A s \in rate_limit_state : Honest(req, s)
    /\ \A r \in Requests : /\ \A s \in req[r].stamps : Honest(req, s)
                           /\ req[r].pc \in {"arrive", "rate"} => ~req[r].limited
                           /\ req[r].pc = "rate" => Refusal(req[r].input) = 0
                           /\ req[r].limited => Cardinality(Within(req, req[r].at)) >= RateLimit

(* A request that was admitted stays so.                                   *)
LEMMA AdmittedStays ==
    ASSUME Base, NEW r \in Requests, Step(r), NEW x \in Requests, Admitting(req[x])
    PROVE  Admitting(req'[x]) /\ req'[x].at = req[x].at
<1>1. ReqMoves(r) /\ LocalShape(req[r], req'[r])
  BY StepShape DEF Shape
<1>2. CASE x # r
  BY <1>1, <1>2 DEF ReqMoves
<1>3. CASE x = r
  BY <1>1, <1>3 DEF Admitting, LocalShape
<1>. QED BY <1>2, <1>3

(* Admitted requests are as many as their stamps.                          *)
LEMMA StampsCount ==
    ASSUME Base, NEW t \in Nat, NEW stamps \in SUBSET Stamp,
           \A s \in stamps : Honest(req, s) /\ s.at > t - RateWindow
    PROVE  Cardinality(stamps) <= Cardinality(Within(req, t)) /\ Cardinality(stamps) \in Nat
<1>. DEFINE f == [s \in stamps |-> s.by]
<1>1. IsFiniteSet(Within(req, t))
  <2>1. Within(req, t) \in SUBSET Requests /\ IsFiniteSet(Requests)
    BY RelayAssumption DEF Within
  <2>. QED BY <2>1, FS_Subset
<1>2. f \in [stamps -> Within(req, t)]
  <2>. SUFFICES ASSUME NEW s \in stamps PROVE s.by \in Within(req, t)
    OBVIOUS
  <2>1. s.by \in Requests /\ Honest(req, s) /\ s.at > t - RateWindow
    BY DEF Stamp
  <2>. QED BY <2>1 DEF Honest, Within
<1>3. \A a, b \in stamps : f[a] = f[b] => a = b
  <2>. SUFFICES ASSUME NEW a \in stamps, NEW b \in stamps, a.by = b.by PROVE a = b
    OBVIOUS
  <2>1. a \in Stamp /\ b \in Stamp /\ a.at = b.at
    BY DEF Honest
  <2>. QED BY <2>1 DEF Stamp
<1>4. f \in Injection(stamps, Within(req, t))
  <2>. HIDE DEF f
  <2>. QED BY <1>2, <1>3 DEF Injection, IsInjective
<1>. QED BY <1>1, <1>4, FS_Injection, FS_CardinalityType

(* The stamps that a thread reads, adds and writes back are honest,        *)
(* however old the window that it writes over.                             *)
LEMMA WindowStep ==
    ASSUME Base, Window, NEW r \in Requests, Step(r)
    PROVE  Window'
<1>1. ReqMoves(r) /\ LocalShape(req[r], req'[r]) /\ SharedShape(req[r]) /\ Typed
  BY StepShape DEF Shape, Base
<1>2. /\ rate_limit_state \subseteq Stamp /\ now \in Nat
      /\ \A x \in Requests : req[x].stamps \subseteq Stamp /\ req[x].at \in Nat
  BY <1>1, RelayAssumption DEF Typed, SharedTyped, LocalsTyped, LocalType
<1>3. \A s \in Stamp : Honest(req, s) => Honest(req', s)
  <2>. SUFFICES ASSUME NEW s \in Stamp, Honest(req, s) PROVE Honest(req', s)
    OBVIOUS
  <2>1. s.by \in Requests
    BY DEF Stamp
  <2>2. Admitting(req[s.by]) /\ req[s.by].at = s.at
    BY DEF Honest
  <2>3. Admitting(req'[s.by]) /\ req'[s.by].at = req[s.by].at
    BY <2>1, <2>2, AdmittedStays
  <2>. QED BY <2>2, <2>3 DEF Honest
<1>4. \A t : /\ Cardinality(Within(req, t)) \in Nat /\ Cardinality(Within(req', t)) \in Nat
            /\ Cardinality(Within(req, t)) <= Cardinality(Within(req', t))
  <2>. TAKE t
  <2>. DEFINE A == Within(req, t)
              B == Within(req', t)
  <2>1. A \subseteq B
    BY AdmittedStays DEF Within
  <2>2. B \subseteq Requests /\ IsFiniteSet(Requests)
    BY RelayAssumption DEF Within
  <2>. HIDE DEF A, B
  <2>3. IsFiniteSet(B)
    BY <2>2, FS_Subset
  <2>4. IsFiniteSet(A) /\ Cardinality(A) <= Cardinality(B) /\ Cardinality(A) \in Nat /\ Cardinality(B) \in Nat
    BY <2>1, <2>3, FS_Subset, FS_CardinalityType
  <2>. QED BY <2>4 DEF A, B
<1>5. \A s \in rate_limit_state' : Honest(req', s)
  <2>1. CASE req[r].pc # "store"
    BY <1>1, <1>2, <1>3, <2>1 DEF SharedShape, Window
  <2>2. CASE req[r].pc = "store"
    <3>1. rate_limit_state' = req[r].stamps
      BY <2>2, StageActions DEF RateStore
    <3>. QED BY <1>2, <1>3, <3>1 DEF Window
  <2>. QED BY <2>1, <2>2
<1>6. ASSUME NEW x \in Requests PROVE \A s \in req[x].stamps : Honest(req', s)
  BY <1>2, <1>3 DEF Window
<1>7. ASSUME NEW x \in Requests, req[x].limited
      PROVE  Cardinality(Within(req', req[x].at)) >= RateLimit
  <2>. DEFINE a == Cardinality(Within(req, req[x].at))
              b == Cardinality(Within(req', req[x].at))
  <2>1. a >= RateLimit
    BY <1>7 DEF Window
  <2>2. a \in Nat /\ b \in Nat /\ a <= b
    BY <1>4
  <2>. HIDE DEF a, b
  <2>3. b >= RateLimit
    BY <2>1, <2>2, RelayAssumption
  <2>. QED BY <2>3 DEF b
<1>8. ASSUME NEW x \in Requests
      PROVE  /\ \A s \in req'[x].stamps : Honest(req', s)
             /\ req'[x].pc \in {"arrive", "rate"} => ~req'[x].limited
             /\ req'[x].pc = "rate" => Refusal(req'[x].input) = 0
             /\ req'[x].limited => Cardinality(Within(req', req'[x].at)) >= RateLimit
  <2>1. CASE x # r
    <3>1. req'[x] = req[x]
      BY <1>1, <2>1 DEF ReqMoves
    <3>. QED BY <1>6, <1>7, <3>1 DEF Window
  <2>2. CASE x = r /\ req[r].pc = "arrive"
    <3>1. PICK i \in Inputs[r] :
              req' = [req EXCEPT ![r].input = i, ![r].status = Refusal(i),
                                 ![r].pc = IF Refusal(i) = 0 THEN "rate" ELSE "done"]
      BY <2>2, StageActions DEF Arrive
    <3>2. /\ req'[r].input = i /\ req'[r].limited = req[r].limited /\ req'[r].stamps = req[r].stamps
          /\ req'[r].pc = IF Refusal(i) = 0 THEN "rate" ELSE "done"
      BY <1>1, <3>1, ArriveMoves
    <3>3. ~req[r].limited
      BY <2>2 DEF Window
    <3>. QED BY <1>6, <2>2, <3>2, <3>3
  <2>3. CASE x = r /\ req[r].pc = "rate"
    <3>. DEFINE recent == Recent(rate_limit_state)
    <3>1. /\ req'[r].input = req[r].input /\ req'[r].at = now /\ req'[r].pc = "store"
          /\ req'[r].limited = (Cardinality(recent) >= RateLimit)
          /\ req'[r].stamps = IF Cardinality(recent) >= RateLimit THEN recent
                              ELSE recent \cup {[by |-> r, at |-> now]}
      BY <1>1, <2>3, StageActions, RateReadMoves
    <3>2. recent \in SUBSET Stamp /\ \A s \in recent : Honest(req, s) /\ s.at > now - RateWindow
      BY <1>2 DEF Recent, Window
    <3>. HIDE DEF recent
    <3>3. Refusal(req[r].input) = 0
      BY <2>3 DEF Window
    <3>4. CASE Cardinality(recent) >= RateLimit
      <4>. DEFINE c == Cardinality(recent)
                  a == Cardinality(Within(req, now))
                  b == Cardinality(Within(req', now))
      <4>1. c \in Nat /\ c <= a /\ a \in Nat /\ b \in Nat /\ a <= b
        BY <1>2, <1>4, <3>2, StampsCount
      <4>2. c >= RateLimit
        BY <3>4
      <4>. HIDE DEF a, b, c
      <4>3. b >= RateLimit
        BY <4>1, <4>2, RelayAssumption
      <4>. QED BY <1>3, <2>3, <3>1, <3>2, <3>4, <4>3 DEF b
    <3>5. CASE ~(Cardinality(recent) >= RateLimit)
      <4>. DEFINE new == [by |-> r, at |-> now]
      <4>1. ~req'[r].limited /\ req'[r].stamps = recent \cup {new}
        BY <3>1, <3>5
      <4>2. Honest(req', new)
        BY <3>1, <3>3, <4>1 DEF Honest, Admitting
      <4>. HIDE DEF new
      <4>. QED BY <1>3, <2>3, <3>1, <3>2, <4>1, <4>2
    <3>. QED BY <3>4, <3>5
  <2>4. CASE x = r /\ req[r].pc \notin {"arrive", "rate"}
    <3>1. /\ req'[r].at = req[r].at /\ req'[r].limited = req[r].limited
          /\ req'[r].pc \notin {"arrive", "rate"}
      BY <1>1, <2>4 DEF LocalShape
    <3>2. req'[r].stamps = req[r].stamps \/ req'[r].stamps = {}
      <4>1. CASE req[r].pc # "store"
        BY <1>1, <2>4, <4>1 DEF LocalShape
      <4>2. CASE req[r].pc = "store"
        BY <1>1, <4>2, StageActions, RateStoreMoves
      <4>. QED BY <4>1, <4>2
    <3>. QED BY <1>6, <1>7, <2>4, <3>1, <3>2
  <2>. QED BY <2>1, <2>2, <2>3, <2>4
<1>. QED BY <1>5, <1>8 DEF Window

(* _is_rate_limited (relay.py:295): the window is kept without a lock and  *)
(* may forget requests, and still a request is refused only when RateLimit *)
(* others were admitted within the window.                                 *)
THEOREM RefusalsHonest == Spec => []RefusedHonestly
<1>1. Init => Window
  <2>. SUFFICES ASSUME Init PROVE Window
    OBVIOUS
  <2>1. rate_limit_state = {} /\ \A r \in Requests : req[r] = NewRequest
    BY DEF Init
  <2>2. NewRequest.pc = "arrive" /\ NewRequest.limited = FALSE /\ NewRequest.stamps = {}
    BY DEF NewRequest
  <2>. QED BY <2>1, <2>2 DEF Window
<1>2. Base /\ Window /\ [Next]_vars => Window'
  <2>. SUFFICES ASSUME Base, Window, [Next]_vars PROVE Window'
    OBVIOUS
  <2>1. ASSUME NEW r \in Requests, Step(r) PROVE Window'
    BY <2>1, WindowStep
  <2>2. CASE Tick \/ UNCHANGED vars
    <3>1. rate_limit_state' = rate_limit_state /\ req' = req
      BY <2>2 DEF Tick, vars, limiter
    <3>. QED BY <3>1 DEF Window
  <2>. QED BY <2>1, <2>2 DEF Next, Finished
<1>3. Window => RefusedHonestly
  <2>. SUFFICES ASSUME Window, NEW r \in Requests, req[r].limited
                PROVE  Cardinality({q \in Requests : /\ req[q].pc \notin {"arrive", "rate"}
                                                     /\ Refusal(req[q].input) = 0 /\ ~req[q].limited
                                                     /\ req[q].at > req[r].at - RateWindow}) >= RateLimit
    BY DEF RefusedHonestly
  <2>1. Cardinality(Within(req, req[r].at)) >= RateLimit
    BY DEF Window
  <2>2. Within(req, req[r].at) = {q \in Requests : /\ req[q].pc \notin {"arrive", "rate"}
                                                   /\ Refusal(req[q].input) = 0 /\ ~req[q].limited
                                                   /\ req[q].at > req[r].at - RateWindow}
    BY DEF Within, Admitting
  <2>. QED BY <2>1, <2>2
<1>. QED BY <1>1, <1>2, <1>3, BaseAlways, PTL DEF Spec

-----------------------------------------------------------------------------
(* Files, when each service has one transport: no two threads meet in the  *)
(* unlocked creation of it, and services have file names of their own.     *)

OneWriter ==
    /\ \A s, t \in Services : FileName[s] = FileName[t] => s = t
    /\ \A q, r \in Requests : \A i \in Inputs[q], j \in Inputs[r] :
          i.service = j.service /\ i.service \notin Warm => q = r

(* A transport serves one service and has counted its files.               *)
Table ==
    /\ \A s \in Warm : transports[s] # 0
    /\ \A s, t \in Services : transports[s] = transports[t] /\ transports[s] # 0 => s = t
    /\ \A p \in DOMAIN files, s \in Services :
          p[3] = FileName[s] => transports[s] # 0 /\ p[2] <= writers[transports[s]].sequence

(* A thread that renames its file holds the lock, and the file is newer    *)
(* than the others of its service.                                         *)
Writing(r) ==
    /\ req[r].pc = "create" => transports[req[r].input.service] = 0
    /\ req[r].pc \in {"write", "replace"} => req[r].writer = transports[req[r].input.service]
    /\ req[r].pc = "replace" =>
          /\ writers[req[r].writer].lock = r
          /\ req[r].path[2] = writers[req[r].writer].sequence
          /\ req[r].path[3] = FileName[req[r].input.service]
          /\ \A p \in DOMAIN files : p[3] = req[r].path[3] => p[2] < req[r].path[2]

Filed == Table /\ \A r \in Requests : Writing(r)

(* Only the transports that threads use matter to them.                    *)
LEMMA WritingKept ==
    ASSUME Base, NEW x \in Requests, Writing(x), req'[x] = req[x],
           req[x].pc = "create" => transports'[req[x].input.service] = 0,
           req[x].pc \in {"write", "replace"} =>
               transports'[req[x].input.service] = transports[req[x].input.service],
           req[x].pc = "replace" =>
               /\ writers'[req[x].writer] = writers[req[x].writer]
               /\ \A p \in DOMAIN files' : p[3] = req[x].path[3] => p \in DOMAIN files
    PROVE  Writing(x)'
BY DEF Writing

(* A step that writes no file leaves the transports alone.                 *)
LEMMA FiledQuiet ==
    ASSUME Base, Filed, NEW r \in Requests, ReqMoves(r), req'[r].pc \notin {"create", "write", "replace"},
           transports' = transports, writers' = writers, files' = files
    PROVE  Filed'
<1>1. Table'
  BY DEF Filed, Table
<1>2. ASSUME NEW x \in Requests PROVE Writing(x)'
  <2>1. CASE x = r
    BY <2>1 DEF Writing
  <2>2. CASE x # r
    <3>1. Writing(x) /\ req'[x] = req[x]
      BY <2>2 DEF Filed, ReqMoves
    <3>. QED BY <3>1 DEF Writing
  <2>. QED BY <2>1, <2>2
<1>. QED BY <1>1, <1>2 DEF Filed

(* A thread takes the transport of its service.                            *)
LEMMA FiledLookup ==
    ASSUME Base, Filed, NEW r \in Requests, Lookup(r)
    PROVE  Filed'
<1>1. req[r].pc = "lookup" /\ transports' = transports /\ writers' = writers /\ files' = files /\ Typed
  BY DEF Lookup, spool, Base
<1>2. req[r].input.service \in Services
  BY <1>1, ServiceKnown
<1>3. /\ ReqMoves(r) /\ SameRate(r) /\ req'[r].writer = transports[req[r].input.service]
      /\ req'[r].pc = IF transports[req[r].input.service] = 0 THEN "create" ELSE "write"
  BY <1>1, <1>2, LookupMoves
<1>4. Table'
  BY <1>1 DEF Filed, Table
<1>5. ASSUME NEW x \in Requests PROVE Writing(x)'
  <2>1. CASE x = r
    BY <1>1, <1>3, <2>1 DEF Writing, SameRate
  <2>2. CASE x # r
    <3>1. Writing(x) /\ req'[x] = req[x]
      BY <1>3, <2>2 DEF Filed, ReqMoves
    <3>. QED BY <1>1, <3>1 DEF Writing
  <2>. QED BY <2>1, <2>2
<1>. QED BY <1>4, <1>5 DEF Filed

(* Only the thread's own service gets a transport.                         *)
LEMMA FiledCreate ==
    ASSUME OneWriter, Base, Filed, NEW r \in Requests, Create(r)
    PROVE  Filed'
<1>. DEFINE s == req[r].input.service
            n == Len(writers)
            fresh == [lock |-> "free", sequence |-> 0]
<1>1. /\ req[r].pc = "create" /\ files' = files /\ Typed /\ writers' = Append(writers, fresh)
      /\ transports' = [transports EXCEPT ![s] = n + 1]
  BY DEF Create, Base
<1>2. s \in Services /\ transports[s] = 0 /\ req[r].input \in Inputs[r]
  BY <1>1, ServiceKnown DEF Filed, Writing, Typed, Consistency
<1>3. /\ ReqMoves(r) /\ SameRate(r) /\ req'[r].writer = n + 1 /\ req'[r].pc = "write"
  BY <1>1, CreateMoves
<1>4. /\ transports \in [Services -> 0 .. n] /\ n \in Nat
      /\ \A i \in 1 .. n : writers'[i] = writers[i]
  <2>1. writers \in Seq(WriterType) /\ transports \in [Services -> 0 .. n]
    BY <1>1 DEF Typed, SharedTyped
  <2>. HIDE DEF fresh
  <2>. QED BY <1>1, <2>1
<1>5. s \notin Warm
  BY <1>2 DEF Filed, Table
<1>. HIDE DEF s, n, fresh
<1>6. transports'[s] = n + 1 /\ \A t \in Services \ {s} : transports'[t] = transports[t]
  BY <1>1, <1>2, <1>4
<1>7. Table'
  <2>1. \A t \in Warm : transports'[t] # 0
    <3>1. \A t \in Warm : t \in Services /\ t # s
      BY <1>5, RelayAssumption
    <3>. QED BY <1>6, <3>1 DEF Filed, Table
  <2>2. \A t, u \in Services : transports'[t] = transports'[u] /\ transports'[t] # 0 => t = u
    <3>1. \A t \in Services \ {s} : transports'[t] # n + 1
      BY <1>4, <1>6
    <3>. QED BY <1>6, <3>1 DEF Filed, Table
  <2>3. ASSUME NEW p \in DOMAIN files, NEW t \in Services, p[3] = FileName[t]
        PROVE  transports'[t] # 0 /\ p[2] <= writers'[transports'[t]].sequence
    <3>1. transports[t] # 0 /\ p[2] <= writers[transports[t]].sequence
      BY <2>3 DEF Filed, Table
    <3>2. t # s /\ transports[t] \in 1 .. n
      BY <1>2, <1>4, <3>1
    <3>. QED BY <1>4, <1>6, <3>1, <3>2
  <2>. QED BY <1>1, <2>1, <2>2, <2>3 DEF Table
<1>8. Writing(r)'
  BY <1>3, <1>6 DEF Writing, SameRate, s
<1>9. ASSUME NEW x \in Requests, x # r PROVE Writing(x)'
  <2>1. Writing(x) /\ req'[x] = req[x]
    BY <1>3, <1>9 DEF Filed, ReqMoves
  <2>. DEFINE t == req[x].input.service
  <2>2. req[x].pc = "create" => transports'[t] = 0
    <3>. SUFFICES ASSUME req[x].pc = "create" PROVE transports'[t] = 0
      OBVIOUS
    <3>1. t \in Services /\ req[x].input \in Inputs[x] /\ transports[t] = 0
      BY <1>1, <2>1, ServiceKnown DEF Typed, Consistency, Writing
    <3>2. t # s
      BY <1>2, <1>5, <1>9, <3>1 DEF OneWriter, s
    <3>. QED BY <1>6, <3>1, <3>2
  <2>3. req[x].pc \in {"write", "replace"} =>
            transports'[t] = transports[t] /\ req[x].writer \in 1 .. n
    <3>. SUFFICES ASSUME req[x].pc \in {"write", "replace"}
                  PROVE  transports'[t] = transports[t] /\ req[x].writer \in 1 .. n
      OBVIOUS
    <3>1. t \in Services /\ req[x].writer \in 1 .. n /\ transports[t] = req[x].writer
      BY <1>1, <2>1, ServiceKnown DEF Typed, Consistency, Writing, n
    <3>2. t # s
      BY <1>2, <1>4, <3>1
    <3>. QED BY <1>6, <3>1, <3>2
  <2>. QED BY <1>1, <1>4, <2>1, <2>2, <2>3, WritingKept
<1>. QED BY <1>7, <1>8, <1>9 DEF Filed

(* The lock keeps the transport for the thread that writes.                *)
LEMMA FiledWrite ==
    ASSUME Base, Filed, NEW r \in Requests, NEW outcome \in WriteOutcomes, WriteTemp(r, outcome)
    PROVE  Filed'
<1>. DEFINE s == req[r].input.service
            w == req[r].writer
            k == writers[w].sequence
            record == [lock |-> IF outcome \in {"ok", "short"} THEN r ELSE "free", sequence |-> k + 1]
<1>1. /\ req[r].pc = "write" /\ files' = files /\ transports' = transports /\ Typed
      /\ writers[w].lock = "free" /\ writers' = [writers EXCEPT ![w] = record]
  BY DEF WriteTemp, Base
<1>2. s \in Services /\ w \in 1 .. Len(writers) /\ w = transports[s]
  BY <1>1, ServiceKnown DEF Typed, Consistency, Filed, Writing
<1>3. /\ ReqMoves(r) /\ SameRate(r) /\ req'[r].writer = w
      /\ req'[r].path = <<now, k + 1, FileName[s]>>
      /\ req'[r].pc = IF outcome \in {"ok", "short"} THEN "replace" ELSE "cleanup"
  BY <1>1, <1>2, WriteMoves
<1>4. k \in Nat /\ record \in WriterType
  <2>1. writers[w] \in WriterType
    BY <1>1, <1>2 DEF Typed, SharedTyped
  <2>. QED BY <2>1 DEF WriterType
<1>5. /\ writers'[w] = record /\ \A i \in 1 .. Len(writers) \ {w} : writers'[i] = writers[i]
      /\ Len(writers) \in Nat /\ transports \in [Services -> 0 .. Len(writers)]
      /\ \A p \in DOMAIN files : p \in Path
  <2>1. /\ writers'[w] = record /\ \A i \in 1 .. Len(writers) \ {w} : writers'[i] = writers[i]
        /\ Len(writers) \in Nat
    <3>. HIDE DEF w, record
    <3>. QED BY <1>1, <1>2, <1>4, WriterSet
  <2>2. transports \in [Services -> 0 .. Len(writers)] /\ \A p \in DOMAIN files : p \in Path
    BY <1>1 DEF Typed, SharedTyped
  <2>. HIDE DEF w, record
  <2>. QED BY <2>1, <2>2
<1>6. record.sequence = k + 1 /\ (outcome \in {"ok", "short"} => record.lock = r)
  OBVIOUS
<1>7. k = writers[w].sequence
  OBVIOUS
<1>. HIDE DEF s, w, k, record
<1>8. ASSUME NEW p \in DOMAIN files, NEW t \in Services, p[3] = FileName[t]
      PROVE  /\ transports[t] # 0 /\ p[2] <= writers'[transports[t]].sequence
             /\ transports[t] = w => p[2] < k + 1
  <2>1. transports[t] # 0 /\ p[2] <= writers[transports[t]].sequence
    BY <1>8 DEF Filed, Table
  <2>2. transports[t] \in 1 .. Len(writers) /\ p[2] \in Nat
    <3>1. transports[t] \in 0 .. Len(writers) /\ p \in Path
      BY <1>5
    <3>. QED BY <1>5, <2>1, <3>1 DEF Path
  <2>3. CASE transports[t] = w
    BY <1>4, <1>5, <1>6, <1>7, <2>1, <2>2, <2>3
  <2>4. CASE transports[t] # w
    BY <1>5, <2>1, <2>2, <2>4
  <2>. QED BY <2>3, <2>4
<1>9. Table'
  BY <1>1, <1>8 DEF Filed, Table
<1>10. Writing(r)'
  <2>1. req'[r].input.service = s /\ transports'[s] = w
    BY <1>1, <1>2, <1>3 DEF SameRate, s
  <2>2. req'[r].path[2] = k + 1 /\ req'[r].path[3] = FileName[s]
    BY <1>3
  <2>3. \A p \in DOMAIN files : p[3] = FileName[s] => p[2] < k + 1
    BY <1>2, <1>8
  <2>4. req'[r].pc \in {"replace", "cleanup"} /\ (req'[r].pc = "replace" => writers'[w].lock = r)
    BY <1>3, <1>5, <1>6
  <2>5. writers'[w].sequence = k + 1
    BY <1>5, <1>6
  <2>. QED BY <1>1, <1>3, <2>1, <2>2, <2>3, <2>4, <2>5 DEF Writing
<1>11. ASSUME NEW x \in Requests, x # r PROVE Writing(x)'
  <2>1. Writing(x) /\ req'[x] = req[x]
    BY <1>3, <1>11 DEF Filed, ReqMoves
  <2>2. req[x].pc = "replace" => writers'[req[x].writer] = writers[req[x].writer]
    <3>. SUFFICES ASSUME req[x].pc = "replace" PROVE writers'[req[x].writer] = writers[req[x].writer]
      OBVIOUS
    <3>1. writers[req[x].writer].lock = x /\ x # "free" /\ req[x].writer \in 1 .. Len(writers)
      BY <1>1, <2>1, RelayAssumption DEF Writing, Typed, Consistency
    <3>2. req[x].writer # w
      BY <1>1, <3>1
    <3>. QED BY <1>5, <3>1, <3>2
  <2>3. /\ req[x].pc = "create" => transports'[req[x].input.service] = 0
        /\ req[x].pc \in {"write", "replace"} =>
              transports'[req[x].input.service] = transports[req[x].input.service]
    BY <1>1, <2>1 DEF Writing
  <2>. QED BY <1>1, <2>1, <2>2, <2>3, WritingKept
<1>. QED BY <1>9, <1>10, <1>11 DEF Filed

(* A renamed file is new, and releases the lock.                           *)
LEMMA FreshFile ==
    ASSUME Base, Filed, NEW r \in Requests, Replace(r)
    PROVE  req[r].path \in Path /\ req[r].path \notin DOMAIN files
<1>1. req[r].path \in Path
  BY ReplaceFiles DEF Base
<1>2. req[r].path[2] \in Nat
  BY <1>1 DEF Path
<1>3. req[r].pc = "replace"
  BY DEF Replace
<1>4. \A p \in DOMAIN files : p[3] = req[r].path[3] => p[2] < req[r].path[2]
  BY <1>3 DEF Filed, Writing
<1>. QED BY <1>1, <1>2, <1>4

(* The renamed file has a number that the transport has counted.           *)
LEMMA FiledReplace ==
    ASSUME OneWriter, Base, Filed, NEW r \in Requests, Replace(r) \/ ReplaceFails(r)
    PROVE  Filed'
<1>. DEFINE s == req[r].input.service
            w == req[r].writer
            path == req[r].path
<1>1. req[r].pc = "replace" /\ transports' = transports /\ writers' = Unlocked(r) /\ Typed
  BY DEF Replace, ReplaceFails, Base
<1>2. /\ s \in Services /\ w \in 1 .. Len(writers) /\ w = transports[s]
      /\ writers[w].lock = r /\ path[2] = writers[w].sequence /\ path[3] = FileName[s]
  BY <1>1, ServiceKnown DEF Typed, Consistency, Filed, Writing
<1>3. ReqMoves(r) /\ req'[r].pc \in {"forward", "accept", "cleanup"}
  BY <1>1, StepShape DEF Step, Shape, LocalShape, Turn
<1>4. /\ writers'[w].sequence = writers[w].sequence
      /\ \A i \in 1 .. Len(writers) \ {w} : writers'[i] = writers[i]
      /\ Len(writers) \in Nat /\ transports \in [Services -> 0 .. Len(writers)]
      /\ \A p \in DOMAIN files : p \in Path
  <2>1. /\ writers'[w].sequence = writers[w].sequence /\ Len(writers) \in Nat
        /\ \A i \in 1 .. Len(writers) \ {w} : writers'[i] = writers[i]
    BY <1>1, UnlockSet
  <2>2. transports \in [Services -> 0 .. Len(writers)] /\ \A p \in DOMAIN files : p \in Path
    BY <1>1 DEF Typed, SharedTyped
  <2>. HIDE DEF w
  <2>. QED BY <2>1, <2>2
<1>5. \/ DOMAIN files' = DOMAIN files
      \/ DOMAIN files' = DOMAIN files \cup {path} /\ path \in Path
  <2>1. CASE Replace(r)
    BY <1>1, <2>1, ReplaceFiles
  <2>2. CASE ReplaceFails(r)
    BY <2>2 DEF ReplaceFails
  <2>. QED BY <2>1, <2>2
<1>6. w # 0
  BY <1>2
<1>. HIDE DEF s, w, path
<1>7. Table'
  <2>1. ASSUME NEW p \in DOMAIN files', NEW t \in Services, p[3] = FileName[t]
        PROVE  transports[t] # 0 /\ p[2] <= writers'[transports[t]].sequence
    <3>1. CASE p \in DOMAIN files
      <4>1. transports[t] # 0 /\ p[2] <= writers[transports[t]].sequence
        BY <2>1, <3>1 DEF Filed, Table
      <4>2. transports[t] \in 1 .. Len(writers)
        BY <1>4, <4>1
      <4>. QED BY <1>4, <4>1, <4>2
    <3>2. CASE p = path /\ path \in Path
      <4>1. t = s
        BY <1>2, <2>1, <3>2 DEF OneWriter
      <4>2. path[2] \in Nat
        BY <3>2 DEF Path
      <4>. QED BY <1>2, <1>4, <1>6, <3>2, <4>1, <4>2
    <3>. QED BY <1>5, <3>1, <3>2
  <2>. QED BY <1>1, <2>1 DEF Filed, Table
<1>8. Writing(r)'
  BY <1>3 DEF Writing
<1>9. ASSUME NEW x \in Requests, x # r PROVE Writing(x)'
  <2>1. Writing(x) /\ req'[x] = req[x]
    BY <1>3, <1>9 DEF Filed, ReqMoves
  <2>2. req[x].pc = "replace" =>
            /\ writers'[req[x].writer] = writers[req[x].writer]
            /\ \A p \in DOMAIN files' : p[3] = req[x].path[3] => p \in DOMAIN files
    <3>. SUFFICES ASSUME req[x].pc = "replace"
                  PROVE  /\ writers'[req[x].writer] = writers[req[x].writer]
                         /\ \A p \in DOMAIN files' : p[3] = req[x].path[3] => p \in DOMAIN files
      OBVIOUS
    <3>. DEFINE t == req[x].input.service
    <3>1. /\ t \in Services /\ req[x].writer \in 1 .. Len(writers) /\ req[x].writer = transports[t]
          /\ writers[req[x].writer].lock = x /\ req[x].path[3] = FileName[t]
      BY <1>1, <2>1, ServiceKnown DEF Typed, Consistency, Writing
    <3>2. req[x].writer # w
      BY <1>2, <1>9, <3>1
    <3>3. t # s
      BY <1>2, <3>1, <3>2
    <3>4. req[x].path[3] # path[3]
      BY <1>2, <3>1, <3>3 DEF OneWriter
    <3>. QED BY <1>4, <1>5, <3>1, <3>2, <3>4
  <2>3. /\ req[x].pc = "create" => transports'[req[x].input.service] = 0
        /\ req[x].pc \in {"write", "replace"} =>
              transports'[req[x].input.service] = transports[req[x].input.service]
    BY <1>1, <2>1 DEF Writing
  <2>. QED BY <2>1, <2>2, <2>3, WritingKept
<1>. QED BY <1>7, <1>8, <1>9 DEF Filed

(* A step of a request keeps the transports apart.                         *)
LEMMA FiledStep ==
    ASSUME OneWriter, Base, Filed, NEW r \in Requests, Step(r)
    PROVE  Filed'
<1>1. CASE req[r].pc \in {"lookup", "create", "write", "replace"}
  BY <1>1, StageActions, FiledLookup, FiledCreate, FiledWrite, FiledReplace
<1>2. CASE req[r].pc \notin {"lookup", "create", "write", "replace"}
  <2>1. ReqMoves(r) /\ LocalShape(req[r], req'[r]) /\ SharedShape(req[r])
    BY StepShape DEF Shape
  <2>2. req[r].pc \in Stages
    BY DEF Base, Typed, LocalsTyped, LocalType
  <2>3. req'[r].pc \notin {"create", "write", "replace"}
    BY <1>2, <2>1, <2>2 DEF LocalShape, Turn, Early, Stages
  <2>4. transports' = transports /\ writers' = writers /\ files' = files
    BY <1>2, <2>1 DEF SharedShape
  <2>. QED BY <2>1, <2>3, <2>4, FiledQuiet
<1>. QED BY <1>1, <1>2

(* So with one transport per service no file is overwritten.               *)
LEMMA FiledAlways == ASSUME OneWriter PROVE Spec => []Filed
<1>1. ASSUME Init PROVE Filed
  <2>. DEFINE order == SetToSeq(Warm)
  <2>1. /\ files = <<>> /\ \A r \in Requests : req[r] = NewRequest
        /\ transports = [s \in Services |->
                            IF s \in Warm THEN CHOOSE i \in DOMAIN order : order[i] = s ELSE 0]
    BY <1>1 DEF Init
  <2>2. NewRequest.pc = "arrive"
    BY DEF NewRequest
  <2>3. \A s \in Warm : \E i \in 1 .. Len(order) : order[i] = s
    BY RelayAssumption, Enumerated
  <2>4. order \in Seq(Warm) /\ DOMAIN order = 1 .. Len(order)
    <3>1. order \in Seq(Warm)
      BY RelayAssumption, Enumerated
    <3>. HIDE DEF order
    <3>. QED BY <3>1
  <2>. HIDE DEF order
  <2>5. \A s \in Warm : /\ s \in Services /\ transports[s] \in 1 .. Len(order)
                        /\ order[transports[s]] = s
    <3>. TAKE s \in Warm
    <3>1. transports[s] = CHOOSE i \in DOMAIN order : order[i] = s
      BY <2>1, RelayAssumption
    <3>. QED BY <2>3, <2>4, <3>1, RelayAssumption
  <2>6. \A s \in Services : transports[s] # 0 => s \in Warm
    BY <2>1
  <2>7. Len(order) \in Nat
    BY <2>4
  <2>8. Table
    <3>1. DOMAIN files = {}
      BY <2>1
    <3>. QED BY <2>5, <2>6, <2>7, <3>1 DEF Table
  <2>. QED BY <2>1, <2>2, <2>8 DEF Filed, Writing
<1>2. Base /\ Filed /\ [Next]_vars => Filed'
  <2>. SUFFICES ASSUME Base, Filed, [Next]_vars PROVE Filed'
    OBVIOUS
  <2>1. ASSUME NEW r \in Requests, Step(r) PROVE Filed'
    BY <2>1, FiledStep
  <2>2. CASE Tick \/ UNCHANGED vars
    <3>1. transports' = transports /\ writers' = writers /\ files' = files /\ req' = req
      BY <2>2 DEF Tick, vars, spool
    <3>. QED BY <3>1 DEF Filed, Table, Writing
  <2>. QED BY <2>1, <2>2 DEF Next, Finished
<1>3. Init => Filed
  BY <1>1
<1>. QED BY <1>2, <1>3, BaseAlways, PTL DEF Spec

-----------------------------------------------------------------------------
(* What a request has on the disk, and what is marked.                     *)

Kept(r) ==
    /\ Spooled(r) => Spooling /\ (\/ req[r].pc \in After
                                  \/ req[r].pc = "done" /\ (req[r].raised \/ req[r].status # 500))
    /\ Spooling /\ req[r].pc \in After => req[r].path \in DOMAIN files /\ files[req[r].path].of = r
    /\ Spooling /\ req[r].pc = "done" /\ req[r].events # <<>> /\ (req[r].raised \/ req[r].status # 500)
          => Spooled(r)
    /\ \A p \in DOMAIN files : files[p].of = r => files[p].whole = (req[r].wrote # "short")

Marked(p) ==
    /\ req[files[p].of].pc \in {"accept", "done"}
    /\ 1 .. Len(req[files[p].of].events) \subseteq req[files[p].of].acked

Delivery == (\A r \in Requests : Kept(r)) /\ \A p \in markers : Marked(p)

(* Files are only added, and a thread adds its own.                        *)
LEMMA FilesKept ==
    ASSUME Base, Filed, NEW r \in Requests, Step(r)
    PROVE  /\ \A p \in DOMAIN files : p \in DOMAIN files' /\ files'[p] = files[p]
           /\ \A p \in DOMAIN files' \ DOMAIN files : /\ Replace(r) /\ p = req[r].path
                                                      /\ files'[p].of = r
           /\ Replace(r) => /\ req[r].path \in DOMAIN files' /\ files'[req[r].path].of = r
                            /\ files'[req[r].path].whole = (req[r].wrote # "short")
<1>1. CASE Replace(r)
  <2>1. /\ DOMAIN files' = DOMAIN files \cup {req[r].path}
        /\ files'[req[r].path] = [of |-> r, whole |-> req[r].wrote # "short"]
        /\ \A p \in DOMAIN files : p # req[r].path => files'[p] = files[p]
    BY <1>1, ReplaceFiles DEF Base
  <2>2. req[r].path \notin DOMAIN files
    BY <1>1, FreshFile
  <2>3. files'[req[r].path].of = r /\ files'[req[r].path].whole = (req[r].wrote # "short")
    BY <2>1
  <2>. QED BY <1>1, <2>1, <2>2, <2>3
<1>2. CASE ~Replace(r)
  <2>1. files' = files
    <3>1. CASE req[r].pc # "replace"
      BY <3>1, StepShape DEF Shape, SharedShape
    <3>2. CASE req[r].pc = "replace"
      BY <1>2, <3>2, StageActions DEF ReplaceFails
    <3>. QED BY <3>1, <3>2
  <2>. QED BY <1>2, <2>1
<1>. QED BY <1>1, <1>2

(* So a request's batch is on the disk from its renaming on.               *)
LEMMA DiskKept ==
    ASSUME Base, Filed, NEW r \in Requests, Step(r), NEW x \in Requests
    PROVE  Spooled(x)' <=> Spooled(x) \/ (x = r /\ Replace(r))
<1>1. /\ \A p \in DOMAIN files : p \in DOMAIN files' /\ files'[p] = files[p]
      /\ \A p \in DOMAIN files' \ DOMAIN files : Replace(r) /\ files'[p].of = r
      /\ Replace(r) => req[r].path \in DOMAIN files' /\ files'[req[r].path].of = r
  BY FilesKept
<1>2. ASSUME Spooled(x)' PROVE Spooled(x) \/ (x = r /\ Replace(r))
  <2>1. PICK p \in DOMAIN files' : files'[p].of = x
    BY <1>2 DEF Spooled
  <2>. QED BY <1>1, <2>1 DEF Spooled
<1>3. ASSUME Spooled(x) \/ (x = r /\ Replace(r)) PROVE Spooled(x)'
  BY <1>1, <1>3 DEF Spooled
<1>. QED BY <1>2, <1>3

(* A request's batch stays on the disk.                                    *)
LEMMA KeptStep ==
    ASSUME Base, Stage, Filed, NEW r \in Requests, Step(r), NEW x \in Requests, Kept(x)
    PROVE  Kept(x)'
<1>1. ReqMoves(r) /\ LocalShape(req[r], req'[r]) /\ SharedShape(req[r])
  BY StepShape DEF Shape
<1>2. Spooling' = Spooling
  BY <1>1 DEF SharedShape, Spooling
<1>3. /\ \A p \in DOMAIN files : p \in DOMAIN files' /\ files'[p] = files[p]
      /\ \A p \in DOMAIN files' \ DOMAIN files : Replace(r) /\ p = req[r].path /\ files'[p].of = r
      /\ Replace(r) => /\ req[r].path \in DOMAIN files' /\ files'[req[r].path].of = r
                       /\ files'[req[r].path].whole = (req[r].wrote # "short")
  BY FilesKept
<1>4. Spooled(x)' <=> Spooled(x) \/ (x = r /\ Replace(r))
  BY DiskKept
<1>5. CASE x # r
  <2>1. req'[x] = req[x]
    BY <1>1, <1>5 DEF ReqMoves
  <2>. QED BY <1>2, <1>3, <1>4, <1>5, <2>1 DEF Kept
<1>6. CASE x = r
  <2>1. req[r].pc \in Stages /\ req'[r].pc \in Stages
    BY <1>1 DEF ReqMoves, Base, Typed, LocalsTyped, LocalType
  <2>2. Staged(r) /\ Kept(r)
    BY <1>6 DEF Stage
  <2>3. Replace(r) => /\ req[r].pc = "replace" /\ Spooling
                      /\ req'[r].pc \in {"forward", "accept"} /\ req'[r].wrote = req[r].wrote
    <3>. SUFFICES ASSUME Replace(r)
                  PROVE  /\ req[r].pc = "replace" /\ Spooling /\ req'[r].pc \in {"forward", "accept"}
                         /\ req'[r].wrote = req[r].wrote
      OBVIOUS
    <3>1. req[r].pc = "replace"
      BY DEF Replace
    <3>2. PICK pc \in {"forward", "accept"} : Goto(r, pc)
      BY DEF Replace
    <3>3. pc \in Stages
      BY DEF Stages
    <3>4. req'[r].pc = pc /\ req'[r].wrote = req[r].wrote
      BY <3>2, <3>3, GotoMoves DEF Base, SameFile
    <3>. QED BY <2>2, <3>1, <3>4 DEF Staged, Filing
  <2>4. req[r].pc = "replace" /\ ~Replace(r) => req'[r].pc = "cleanup"
    <3>. SUFFICES ASSUME req[r].pc = "replace", ~Replace(r) PROVE req'[r].pc = "cleanup"
      OBVIOUS
    <3>1. ReplaceFails(r)
      BY StageActions
    <3>. QED BY <3>1, ReplaceFailsMoves DEF Base
  <2>5. Spooled(r)' => Spooling /\ (\/ req'[r].pc \in After
                                    \/ req'[r].pc = "done" /\ (req'[r].raised \/ req'[r].status # 500))
    <3>1. CASE Replace(r)
      BY <2>3, <3>1 DEF After
    <3>2. CASE Spooled(r)
      <4>1. Spooling /\ req[r].pc \in After
        BY <1>1, <2>2, <3>2 DEF Kept, LocalShape, Turn
      <4>. QED BY <1>1, <4>1 DEF LocalShape, Turn, After, Sending
    <3>. QED BY <1>4, <1>6, <3>1, <3>2
  <2>6. Spooling /\ req'[r].pc \in After => req'[r].path \in DOMAIN files' /\ files'[req'[r].path].of = r
    <3>. SUFFICES ASSUME Spooling, req'[r].pc \in After
                  PROVE  req'[r].path \in DOMAIN files' /\ files'[req'[r].path].of = r
      OBVIOUS
    <3>1. CASE req[r].pc = "replace"
      <4>1. Replace(r)
        BY <2>4, <3>1 DEF After
      <4>2. req'[r].path = req[r].path
        BY <1>1, <3>1 DEF LocalShape
      <4>. QED BY <1>3, <4>1, <4>2
    <3>2. CASE req[r].pc # "replace"
      <4>1. req[r].pc \in After /\ req[r].pc # "accept"
        BY <1>1, <2>1, <3>2 DEF LocalShape, Turn, Early, After, Sending, Stages
      <4>2. req'[r].path = req[r].path
        BY <1>1, <4>1 DEF LocalShape, After
      <4>. QED BY <1>3, <2>2, <4>1, <4>2 DEF Kept
    <3>. QED BY <3>1, <3>2
  <2>7. Spooling /\ req'[r].pc = "done" /\ req'[r].events # <<>> /\ (req'[r].raised \/ req'[r].status # 500)
        => Spooled(r)'
    <3>. SUFFICES ASSUME Spooling, req'[r].pc = "done", req'[r].events # <<>>,
                         req'[r].raised \/ req'[r].status # 500
                  PROVE  Spooled(r)'
      OBVIOUS
    <3>1. req[r].pc = "accept"
      BY <1>1, <2>1, <2>2 DEF Staged, LocalShape, Turn, Early, Sending, Stages
    <3>2. Spooled(r)
      BY <2>2, <3>1 DEF Kept, After, Spooled
    <3>. QED BY <1>4, <1>6, <3>2
  <2>8. ASSUME NEW p \in DOMAIN files', files'[p].of = r
        PROVE  files'[p].whole = (req'[r].wrote # "short")
    <3>1. CASE p \in DOMAIN files
      <4>1. files'[p] = files[p] /\ Spooled(r)
        BY <1>3, <2>8, <3>1 DEF Spooled
      <4>2. req[r].pc \in After \/ req[r].pc = "done"
        BY <2>2, <4>1 DEF Kept
      <4>3. req'[r].wrote = req[r].wrote
        BY <1>1, <4>2 DEF LocalShape, After
      <4>. QED BY <2>2, <2>8, <3>1, <4>1, <4>3 DEF Kept
    <3>2. CASE p \notin DOMAIN files
      <4>1. Replace(r) /\ p = req[r].path
        BY <1>3, <3>2
      <4>. QED BY <1>3, <2>3, <4>1
    <3>. QED BY <3>1, <3>2
  <2>. QED BY <1>2, <1>6, <2>5, <2>6, <2>7, <2>8 DEF Kept
<1>. QED BY <1>5, <1>6

(* A file is marked by a thread whose events are all accepted.             *)
LEMMA MarkedStep ==
    ASSUME Base, Stage, Filed, Delivery, NEW r \in Requests, Step(r)
    PROVE  \A p \in markers' : Marked(p)'
<1>1. ReqMoves(r) /\ LocalShape(req[r], req'[r]) /\ SharedShape(req[r])
  BY StepShape DEF Shape
<1>2. \A p \in DOMAIN files : p \in DOMAIN files' /\ files'[p] = files[p]
  BY FilesKept
<1>3. markers \subseteq DOMAIN files
  BY DEF Stage
<1>4. ASSUME NEW p \in markers PROVE Marked(p)'
  <2>. DEFINE o == files[p].of
  <2>1. Marked(p) /\ files'[p] = files[p]
    BY <1>2, <1>3, <1>4 DEF Delivery
  <2>2. o \in Requests
    <3>1. files[p] \in [of: Requests, whole: BOOLEAN]
      BY <1>3, <1>4 DEF Base, Typed, SharedTyped
    <3>. QED BY <3>1
  <2>3. req[o].pc \in {"accept", "done"} /\ 1 .. Len(req[o].events) \subseteq req[o].acked
    BY <2>1 DEF Marked
  <2>. HIDE DEF o
  <2>4. /\ req'[o].pc \in {"accept", "done"} /\ req'[o].events = req[o].events
        /\ req'[o].acked = req[o].acked
    <3>1. CASE o # r
      BY <1>1, <2>2, <2>3, <3>1 DEF ReqMoves
    <3>2. CASE o = r
      BY <1>1, <2>3, <3>2 DEF LocalShape, Turn
    <3>. QED BY <3>1, <3>2
  <2>. QED BY <2>1, <2>3, <2>4 DEF Marked, o
<1>5. CASE req[r].pc # "mark"
  BY <1>1, <1>4, <1>5 DEF SharedShape
<1>6. CASE req[r].pc = "mark"
  <2>1. markers' \subseteq markers \cup {req[r].path}
    BY <1>6, StageActions DEF Mark
  <2>2. req[r].path \in DOMAIN files /\ files[req[r].path].of = r
    BY <1>6 DEF Stage, Staged, Delivery, Kept, After
  <2>3. 1 .. Len(req[r].events) \subseteq req[r].acked
    BY <1>6 DEF Base, Acks, Forwarded
  <2>4. req'[r].pc = "accept" /\ req'[r].events = req[r].events /\ req'[r].acked = req[r].acked
    BY <1>1, <1>6 DEF LocalShape, Turn
  <2>5. \A p : p = req[r].path => Marked(p)'
    BY <1>2, <2>2, <2>3, <2>4 DEF Marked
  <2>. QED BY <1>4, <2>1, <2>5
<1>. QED BY <1>5, <1>6

(* So files and markers tell the truth.                                    *)
LEMMA DeliveryAlways == ASSUME OneWriter PROVE Spec => []Delivery
<1>1. Init => Delivery
  <2>. SUFFICES ASSUME Init PROVE Delivery
    OBVIOUS
  <2>1. files = <<>> /\ markers = {} /\ \A r \in Requests : req[r] = NewRequest
    BY DEF Init
  <2>2. NewRequest.pc = "arrive"
    BY DEF NewRequest
  <2>3. DOMAIN files = {}
    BY <2>1
  <2>4. \A r \in Requests : ~Spooled(r)
    BY <2>3 DEF Spooled
  <2>. QED BY <2>1, <2>2, <2>4 DEF Delivery, Kept, After
<1>2. Base /\ Stage /\ Filed /\ Delivery /\ [Next]_vars => Delivery'
  <2>. SUFFICES ASSUME Base, Stage, Filed, Delivery, [Next]_vars PROVE Delivery'
    OBVIOUS
  <2>1. ASSUME NEW r \in Requests, Step(r) PROVE Delivery'
    <3>1. \A x \in Requests : Kept(x)'
      BY <2>1, KeptStep DEF Delivery
    <3>2. \A p \in markers' : Marked(p)'
      BY <2>1, MarkedStep
    <3>. QED BY <3>1, <3>2 DEF Delivery
  <2>2. CASE Tick \/ UNCHANGED vars
    <3>1. handler' = handler /\ files' = files /\ markers' = markers /\ req' = req
      BY <2>2 DEF Tick, vars, spool
    <3>. QED BY <3>1 DEF Delivery, Kept, Marked, Spooled, Spooling
  <2>. QED BY <2>1, <2>2 DEF Next, Finished
<1>. QED BY <1>1, <1>2, BaseAlways, StageAlways, FiledAlways, PTL DEF Spec

(* _deliver_events (relay.py:224): when each service has one transport, a  *)
(* request answered 202 or 400, and one whose on_accept raised, has a file *)
(* of its accepted events, complete unless os.write was short; a request   *)
(* answered 500 before on_accept was called has none.                      *)
THEOREM SpoolTruthful == ASSUME OneWriter PROVE Spec => []SpoolTruth
<1>1. Delivery => SpoolTruth
  <2>. SUFFICES ASSUME Delivery, NEW r \in Requests, Spooling, req[r].pc = "done", req[r].events # <<>>
                PROVE  IF req[r].status # 500 \/ req[r].raised
                       THEN Spooled(r) /\ (req[r].wrote # "short" => OnDisk(r))
                       ELSE ~Spooled(r)
    BY DEF SpoolTruth
  <2>1. Kept(r)
    BY DEF Delivery
  <2>2. Spooled(r) /\ req[r].wrote # "short" => OnDisk(r)
    BY <2>1 DEF Kept, Spooled, OnDisk
  <2>3. req[r].status # 500 \/ req[r].raised => Spooled(r)
    BY <2>1 DEF Kept
  <2>4. Spooled(r) => req[r].status # 500 \/ req[r].raised
    BY <2>1 DEF Kept, After
  <2>. QED BY <2>2, <2>3, <2>4
<1>. QED BY <1>1, DeliveryAlways, PTL

(* README.md:102: under the same assumption, every event of a file that is *)
(* marked as delivered was accepted by a canonical acknowledgement.        *)
THEOREM MarksComplete == ASSUME OneWriter PROVE Spec => []MarkedOnlyComplete
<1>1. Base /\ Stage /\ Delivery => MarkedOnlyComplete
  <2>. SUFFICES ASSUME Base, Stage, Delivery, NEW p \in markers,
                       NEW i \in DOMAIN req[files[p].of].events
                PROVE  i \in req[files[p].of].acked
    BY DEF MarkedOnlyComplete
  <2>1. files[p] \in [of: Requests, whole: BOOLEAN]
    BY DEF Base, Typed, SharedTyped, Stage
  <2>2. req[files[p].of].events \in Seq(Sanitized)
    BY <2>1 DEF Base, Typed, LocalsTyped, LocalType
  <2>3. Marked(p)
    BY DEF Delivery
  <2>4. DOMAIN req[files[p].of].events = 1 .. Len(req[files[p].of].events)
    BY <2>2
  <2>. QED BY <2>3, <2>4 DEF Marked
<1>. QED BY <1>1, BaseAlways, StageAlways, DeliveryAlways, PTL

-----------------------------------------------------------------------------
(* The relay keeps its contract.                                           *)

Stored == {r \in Requests : Spooled(r)}

Delivered == {r \in Requests : req[r].events # <<>> /\ req[r].acked = DOMAIN req[r].events}

MarkedRequests == {files[p].of : p \in markers}

Answers == [r \in Requests |-> AnswerOf(req[r])]

(* The contract's steps, in the relay's terms.                             *)
LEMMA ContractSteps ==
    ASSUME NEW r \in Requests
    PROVE  /\ /\ Spooling /\ Answers[r] = "none" /\ Stored' = Stored \cup {r}
              /\ UNCHANGED <<Spooling, Delivered, MarkedRequests, Answers>>
              => Contract!Next
           /\ /\ Answers[r] = "none" /\ (Spooling => r \in Stored) /\ Delivered' = Delivered \cup {r}
              /\ UNCHANGED <<Spooling, Stored, MarkedRequests, Answers>>
              => Contract!Next
           /\ /\ r \in Stored \cap Delivered /\ MarkedRequests' = MarkedRequests \cup {r}
              /\ UNCHANGED <<Spooling, Stored, Delivered, Answers>>
              => Contract!Next
           /\ \A a \in {"accepted", "failed", "refused"} :
                 /\ Answers[r] = "none" /\ (a = "accepted" => (Spooling => r \in Stored))
                 /\ a = "refused" => r \notin Stored \cup Delivered
                 /\ Answers' = [Answers EXCEPT ![r] = a]
                 /\ UNCHANGED <<Spooling, Stored, Delivered, MarkedRequests>>
                 => Contract!Next
           /\ UNCHANGED <<Spooling, Stored, Delivered, MarkedRequests, Answers>>
              => UNCHANGED Contract!promise
<1>. USE DEF Stored, Delivered, MarkedRequests, Answers
<1>1. /\ Spooling /\ Answers[r] = "none" /\ Stored' = Stored \cup {r}
      /\ UNCHANGED <<Spooling, Delivered, MarkedRequests, Answers>>
      => Contract!Store(r)
  BY DEF Contract!Store
<1>2. /\ Answers[r] = "none" /\ (Spooling => r \in Stored) /\ Delivered' = Delivered \cup {r}
      /\ UNCHANGED <<Spooling, Stored, MarkedRequests, Answers>>
      => Contract!Deliver(r)
  BY DEF Contract!Deliver
<1>3. /\ r \in Stored \cap Delivered /\ MarkedRequests' = MarkedRequests \cup {r}
      /\ UNCHANGED <<Spooling, Stored, Delivered, Answers>>
      => Contract!MarkDelivered(r)
  BY DEF Contract!MarkDelivered
<1>4. ASSUME NEW a \in {"accepted", "failed", "refused"}
      PROVE  /\ Answers[r] = "none" /\ (a = "accepted" => (Spooling => r \in Stored))
             /\ a = "refused" => r \notin Stored \cup Delivered
             /\ Answers' = [Answers EXCEPT ![r] = a]
             /\ UNCHANGED <<Spooling, Stored, Delivered, MarkedRequests>>
             => Contract!Answer(r, a)
  BY DEF Contract!Answer
<1>5. UNCHANGED <<Spooling, Stored, Delivered, MarkedRequests, Answers>>
      => UNCHANGED Contract!promise
  BY DEF Contract!promise
<1>. QED BY <1>1, <1>2, <1>3, <1>4, <1>5 DEF Contract!Next

(* What a step changes of the contract's variables.                        *)
LEMMA ViewOfFiles ==
    ASSUME Base, Stage, Filed, Delivery, NEW r \in Requests, Step(r)
    PROVE  /\ Spooling' = Spooling
           /\ Stored' = IF Replace(r) THEN Stored \cup {r} ELSE Stored
           /\ req[r].pc # "mark" => MarkedRequests' = MarkedRequests
           /\ MarkedRequests' \in {MarkedRequests, MarkedRequests \cup {r}}
<1>1. SharedShape(req[r])
  BY StepShape DEF Shape
<1>2. Spooling' = Spooling
  BY <1>1 DEF SharedShape, Spooling
<1>3. Stored' = IF Replace(r) THEN Stored \cup {r} ELSE Stored
  <2>1. \A x \in Requests : Spooled(x)' <=> Spooled(x) \/ (x = r /\ Replace(r))
    BY DiskKept
  <2>. QED BY <2>1 DEF Stored
<1>4. /\ \A p \in markers : files'[p] = files[p]
  BY FilesKept DEF Stage
<1>5. CASE req[r].pc # "mark"
  <2>1. markers' = markers
    BY <1>1, <1>5 DEF SharedShape
  <2>2. MarkedRequests' = MarkedRequests
    BY <1>4, <2>1 DEF MarkedRequests
  <2>. QED BY <1>2, <1>3, <2>2
<1>6. CASE req[r].pc = "mark"
  <2>1. files' = files /\ (markers' = markers \/ markers' = markers \cup {req[r].path})
    BY <1>6, StageActions DEF Mark
  <2>2. files[req[r].path].of = r
    BY <1>6 DEF Stage, Staged, Delivery, Kept, After
  <2>3. MarkedRequests' \in {MarkedRequests, MarkedRequests \cup {r}}
    BY <2>1, <2>2 DEF MarkedRequests
  <2>. QED BY <1>2, <1>3, <1>6, <2>3
<1>. QED BY <1>5, <1>6

(* Events are acknowledged once, and fixed when they are stored.           *)
LEMMA ViewOfEvents ==
    ASSUME Base, Stage, NEW r \in Requests, Step(r)
    PROVE  /\ Delivered' \in {Delivered, Delivered \cup {r}}
           /\ req[r].pc # "send" => Delivered' = Delivered
<1>1. ReqMoves(r) /\ LocalShape(req[r], req'[r]) /\ Base'
  BY StepShape, BaseStep DEF Shape
<1>2. \A x \in Requests \ {r} : req'[x] = req[x]
  BY <1>1 DEF ReqMoves
<1>3. req[r].events \in Seq(Sanitized) /\ req'[r].events \in Seq(Sanitized)
  BY <1>1 DEF Base, Typed, LocalsTyped, LocalType
<1>4. CASE req[r].pc \notin {"screen", "send"}
  <2>1. req'[r].events = req[r].events /\ req'[r].acked = req[r].acked
    BY <1>1, <1>4 DEF LocalShape
  <2>. QED BY <1>2, <1>4, <2>1 DEF Delivered
<1>5. CASE req[r].pc = "screen"
  <2>1. req[r].acked = {} /\ req'[r].acked = {}
    BY <1>1, <1>5 DEF LocalShape, Base, Acks, Forwarded, Unsent
  <2>2. \A e \in Seq(Sanitized) : e # <<>> => DOMAIN e # {}
    <3>. TAKE e \in Seq(Sanitized)
    <3>. HAVE e # <<>>
    <3>. DEFINE n == Len(e)
    <3>1. DOMAIN e = 1 .. n /\ n \in Nat /\ n # 0
      OBVIOUS
    <3>. HIDE DEF n
    <3>2. 1 \in 1 .. n
      BY <3>1
    <3>. QED BY <3>1, <3>2
  <2>3. r \notin Delivered /\ r \notin Delivered'
    BY <1>3, <2>1, <2>2 DEF Delivered
  <2>4. Delivered' = Delivered
    BY <1>2, <2>3 DEF Delivered
  <2>. QED BY <1>5, <2>4
<1>6. CASE req[r].pc = "send"
  <2>1. req'[r].events = req[r].events
    BY <1>1, <1>6 DEF LocalShape
  <2>2. req[r].acked \subseteq req'[r].acked
    <3>1. CASE SendFails(r)
      <4>1. Goto(r, "merge") /\ "merge" \in Stages
        BY <3>1 DEF SendFails, ChunkResult, Stages
      <4>. QED BY <4>1, GotoMoves DEF Base, SameReply
    <3>2. CASE Heard(r)
      BY <3>2 DEF Heard
    <3>. QED BY <1>6, <3>1, <3>2, StageActions, HeardFirst, HeardAgain
  <2>3. req'[r].acked \subseteq DOMAIN req'[r].events
    <3>1. req'[r].acked \subseteq 1 .. Len(req'[r].events)
      BY <1>1 DEF Base, Acks, Forwarded
    <3>. QED BY <1>3, <3>1
  <2>4. r \in Delivered => r \in Delivered'
    BY <2>1, <2>2, <2>3 DEF Delivered
  <2>5. Delivered' \in {Delivered, Delivered \cup {r}}
    BY <1>2, <2>4 DEF Delivered
  <2>. QED BY <1>6, <2>5
<1>. QED BY <1>4, <1>5, <1>6

(* An answer is given once, at the end.                                    *)
LEMMA ViewOfAnswers ==
    ASSUME Base, NEW r \in Requests, Step(r)
    PROVE  /\ Answers[r] = "none"
           /\ req'[r].pc # "done" => Answers' = Answers
           /\ req'[r].pc = "done" =>
                 \E a \in {"accepted", "failed", "refused"} :
                    /\ Answers' = [Answers EXCEPT ![r] = a]
                    /\ a = "accepted" => req'[r].status # 500 /\ req'[r].events # <<>>
                    /\ a = "refused" => req'[r].events = <<>>
<1>1. ReqMoves(r) /\ LocalShape(req[r], req'[r])
  BY StepShape DEF Shape
<1>2. \A x \in Requests \ {r} : req'[x] = req[x]
  BY <1>1 DEF ReqMoves
<1>3. req[r].pc # "done"
  BY <1>1 DEF LocalShape, Turn
<1>4. Answers[r] = "none"
  <2>1. AnswerOf(req[r]) = "none"
    BY <1>3 DEF AnswerOf
  <2>. QED BY <2>1 DEF Answers
<1>5. CASE req'[r].pc # "done"
  <2>1. AnswerOf(req[r]) = "none" /\ AnswerOf(req'[r]) = "none"
    BY <1>3, <1>5 DEF AnswerOf
  <2>2. \A x \in Requests : AnswerOf(req'[x]) = AnswerOf(req[x])
    BY <1>2, <2>1
  <2>3. Answers' = [x \in Requests |-> AnswerOf(req'[x])]
    BY DEF Answers
  <2>. QED BY <1>4, <1>5, <2>2, <2>3 DEF Answers
<1>6. CASE req'[r].pc = "done"
  <2>. DEFINE a == AnswerOf(req'[r])
  <2>1. /\ a \in {"accepted", "failed", "refused"}
        /\ a = "accepted" => req'[r].status # 500 /\ req'[r].events # <<>>
        /\ a = "refused" => req'[r].events = <<>>
    BY <1>6 DEF AnswerOf
  <2>2. Answers' = [x \in Requests |-> AnswerOf(req'[x])]
    BY DEF Answers
  <2>3. Answers' = [Answers EXCEPT ![r] = a]
    <3>. HIDE DEF a
    <3>1. AnswerOf(req'[r]) = a
      BY DEF a
    <3>. QED BY <1>2, <2>2, <3>1 DEF Answers
  <2>. HIDE DEF a
  <2>. QED BY <1>4, <1>6, <2>1, <2>3
<1>. QED BY <1>5, <1>6

(* A step of a request is a step of the contract, or none.                 *)
LEMMA ContractStep ==
    ASSUME Base, Stage, Filed, Delivery, NEW r \in Requests, Step(r)
    PROVE  Contract!Next \/ UNCHANGED Contract!promise
<1>1. LocalShape(req[r], req'[r]) /\ Staged(r) /\ Kept(r) /\ Kept(r)'
  BY StepShape, KeptStep DEF Shape, Stage, Delivery
<1>2. /\ Spooling' = Spooling
      /\ Stored' = IF Replace(r) THEN Stored \cup {r} ELSE Stored
      /\ req[r].pc # "mark" => MarkedRequests' = MarkedRequests
      /\ MarkedRequests' \in {MarkedRequests, MarkedRequests \cup {r}}
  BY ViewOfFiles
<1>3. /\ Delivered' \in {Delivered, Delivered \cup {r}}
      /\ req[r].pc # "send" => Delivered' = Delivered
  BY ViewOfEvents
<1>4. /\ Answers[r] = "none" /\ (req'[r].pc # "done" => Answers' = Answers)
  BY ViewOfAnswers
<1>5. req[r].pc \in Stages
  BY DEF Base, Typed, LocalsTyped, LocalType
<1>6. Replace(r) => req[r].pc = "replace"
  BY DEF Replace
<1>7. CASE req[r].pc = "replace"
  <2>1. req'[r].pc # "done" /\ Spooling
    BY <1>1, <1>7 DEF LocalShape, Turn, Staged, Filing
  <2>. QED BY <1>2, <1>3, <1>4, <1>7, <2>1, ContractSteps
<1>8. CASE req[r].pc = "send"
  <2>1. req'[r].pc # "done"
    BY <1>1, <1>8 DEF LocalShape, Turn
  <2>2. Spooling => r \in Stored
    BY <1>1, <1>8 DEF Kept, After, Stored, Spooled
  <2>. QED BY <1>2, <1>3, <1>4, <1>6, <1>8, <2>1, <2>2, ContractSteps
<1>9. CASE req[r].pc = "mark"
  <2>1. req'[r].pc # "done"
    BY <1>1, <1>9 DEF LocalShape, Turn
  <2>2. r \in Stored
    BY <1>1, <1>9 DEF Staged, Kept, After, Stored, Spooled
  <2>3. r \in Delivered
    <3>1. /\ 1 .. Len(req[r].events) \subseteq req[r].acked /\ req[r].acked \subseteq 1 .. Len(req[r].events)
          /\ req[r].events \in Seq(Sanitized)
      BY <1>9 DEF Base, Acks, Forwarded, Typed, LocalsTyped, LocalType
    <3>2. DOMAIN req[r].events = 1 .. Len(req[r].events)
      BY <3>1
    <3>3. req[r].acked = DOMAIN req[r].events
      BY <3>1, <3>2, Zenon
    <3>4. req[r].events # <<>>
      BY <1>1, <1>9 DEF Staged, After
    <3>. QED BY <3>3, <3>4 DEF Delivered
  <2>. QED BY <1>2, <1>3, <1>4, <1>6, <1>9, <2>1, <2>2, <2>3, ContractSteps
<1>10. CASE req[r].pc \notin {"replace", "send", "mark"} /\ req'[r].pc # "done"
  BY <1>2, <1>3, <1>4, <1>6, <1>10, ContractSteps
<1>11. CASE req[r].pc \notin {"replace", "send", "mark"} /\ req'[r].pc = "done"
  <2>1. UNCHANGED <<Spooling, Stored, Delivered, MarkedRequests>>
    BY <1>2, <1>3, <1>6, <1>11
  <2>2. PICK a \in {"accepted", "failed", "refused"} :
            /\ Answers' = [Answers EXCEPT ![r] = a]
            /\ a = "accepted" => req'[r].status # 500 /\ req'[r].events # <<>>
            /\ a = "refused" => req'[r].events = <<>>
    BY <1>11, ViewOfAnswers
  <2>3. a = "accepted" => (Spooling => r \in Stored)
    <3>1. a = "accepted" /\ Spooling => Spooled(r)'
      BY <1>1, <1>2, <1>11, <2>2 DEF Kept
    <3>2. Spooled(r)' => r \in Stored'
      BY DEF Stored
    <3>. QED BY <2>1, <3>1, <3>2
  <2>4. a = "refused" => r \notin Stored
    <3>. SUFFICES ASSUME Spooled(r) PROVE req'[r].events # <<>>
      BY <2>2 DEF Stored
    <3>1. req[r].pc \in After
      BY <1>1 DEF Kept, LocalShape, Turn
    <3>2. req[r].events # <<>> /\ req'[r].events = req[r].events
      BY <1>1, <3>1 DEF Staged, LocalShape, After
    <3>. QED BY <3>2
  <2>5. a = "refused" => r \notin Delivered
    <3>1. a = "refused" => r \notin Delivered'
      BY <2>2 DEF Delivered
    <3>. QED BY <2>1, <3>1
  <2>. QED BY <1>4, <2>1, <2>2, <2>3, <2>4, <2>5, ContractSteps
<1>. QED BY <1>7, <1>8, <1>9, <1>10, <1>11

(* BrowserRelayHandler.handle (relay.py:89) keeps the relay's contract     *)
(* when each service has one transport: accepted events are stored before  *)
(* they are delivered or acknowledged to the browser, stay stored, and are *)
(* marked only when stored and delivered; an answer is final.              *)
THEOREM ContractKept == ASSUME OneWriter PROVE Spec => KeepsContract
<1>1. Init => Contract!Init
  <2>. SUFFICES ASSUME Init PROVE Contract!Init
    OBVIOUS
  <2>1. files = <<>> /\ markers = {} /\ \A r \in Requests : req[r] = NewRequest
    BY DEF Init
  <2>2. NewRequest.pc = "arrive" /\ NewRequest.events = <<>>
    BY DEF NewRequest
  <2>3. DOMAIN files = {}
    BY <2>1
  <2>4. Stored = {} /\ Delivered = {} /\ MarkedRequests = {} /\ Spooling \in BOOLEAN
    BY <2>1, <2>2, <2>3 DEF Stored, Delivered, MarkedRequests, Spooled, Spooling
  <2>5. Answers = [r \in Requests |-> "none"]
    <3>1. \A r \in Requests : AnswerOf(req[r]) = "none"
      BY <2>1, <2>2 DEF AnswerOf
    <3>. QED BY <3>1 DEF Answers
  <2>. QED BY <2>4, <2>5 DEF Contract!Init, Stored, Delivered, MarkedRequests, Answers
<1>2. Base /\ Stage /\ Filed /\ Delivery /\ [Next]_vars => [Contract!Next]_(Contract!promise)
  <2>. SUFFICES ASSUME Base, Stage, Filed, Delivery, [Next]_vars
                PROVE  Contract!Next \/ UNCHANGED Contract!promise
    OBVIOUS
  <2>1. ASSUME NEW r \in Requests, Step(r) PROVE Contract!Next \/ UNCHANGED Contract!promise
    BY <2>1, ContractStep
  <2>2. CASE Tick \/ UNCHANGED vars
    <3>1. handler' = handler /\ files' = files /\ markers' = markers /\ req' = req
      BY <2>2 DEF Tick, vars, spool
    <3>2. UNCHANGED <<Spooling, Stored, Delivered, MarkedRequests, Answers>>
      BY <3>1 DEF Spooling, Stored, Delivered, MarkedRequests, Answers, Spooled
    <3>. QED BY <3>2 DEF Contract!promise, Stored, Delivered, MarkedRequests, Answers
  <2>. QED BY <2>1, <2>2 DEF Next, Finished
<1>. QED BY <1>1, <1>2, BaseAlways, StageAlways, FiledAlways, DeliveryAlways, PTL
     DEF Spec, KeepsContract, Contract!Spec
=============================================================================
