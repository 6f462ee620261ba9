---- MODULE PipelineProofs ----
(***************************************************************************)
(* What is proved of the whole chain.  Every behaviour of Pipeline is one  *)
(* of RateLimit and one of Idempotency, so that the invariants proved of   *)
(* these hold in it; what a request does in one is then tied to what it    *)
(* does in the other.                                                      *)
(***************************************************************************)
EXTENDS Pipeline, FiniteSetTheorems, TLAPS

LP == INSTANCE RateLimitProofs WITH pc <- lpc, Faults <- Faults \intersect {"down", "lost"}
IP == INSTANCE AnswerProofs WITH pc <- ipc, TTL <- RowTTL,
        Faults <- Faults \intersect {"db", "storage", "cancel", "panic", "truncate"}

----------------------------------------------------------------------------
(* The steps of the parts are those of their own modules, and neither part  *)
(* moves the clock but by Tick.                                             *)

(* The chain starts with an empty limiter.                                  *)
LEMMA LimiterInit == L!Init => LP!Init
BY DEF L!Init, LP!Init, L!Counters, LP!Counters, L!Windows, LP!Windows

(* A request arrives at the limiter as it does in RateLimit.                *)
LEMMA LimiterArrives ==
  ASSUME NEW r \in Requests, L!Arrive(r)
  PROVE  LP!Arrive(r) /\ now' = now
BY DEF L!Arrive, LP!Arrive, L!Goto, LP!Goto, L!HourOf, LP!HourOf

(* And is served as it is there.                                            *)
LEMMA LimiterServes ==
  ASSUME NEW r \in Requests, L!Serve(r)
  PROVE  LP!Serve(r) /\ now' = now
<1> USE DEF L!KeyOf, LP!KeyOf, L!Goto, LP!Goto
<1>1. CASE L!Incr(r)
  BY <1>1 DEF LP!Serve, L!Incr, LP!Incr, L!Increment, LP!Increment, L!AfterIncr, LP!AfterIncr
<1>2. CASE L!IncrReplyLost(r)
  BY <1>2 DEF LP!Serve, L!IncrReplyLost, LP!IncrReplyLost, L!Increment, LP!Increment,
              L!RetryOrOpen, LP!RetryOrOpen
<1>3. CASE L!IncrFails(r)
  BY <1>3 DEF LP!Serve, L!IncrFails, LP!IncrFails, L!RetryOrOpen, LP!RetryOrOpen
<1>4. CASE L!Expire(r)
  BY <1>4 DEF LP!Serve, L!Expire, LP!Expire, L!TTL, LP!TTL
<1>5. CASE L!ExpireFails(r)
  BY <1>5 DEF LP!Serve, L!ExpireFails, LP!ExpireFails
<1>6. CASE L!Decide(r)
  BY <1>6 DEF LP!Serve, L!Decide, LP!Decide, L!Within, LP!Within, L!EndOfHour, LP!EndOfHour,
              L!HourOf, LP!HourOf
<1> QED
  BY <1>1, <1>2, <1>3, <1>4, <1>5, <1>6 DEF L!Serve

(* The clock moves, and Redis deletes what has expired, as there.           *)
LEMMA LimiterTicks == L!Tick => LP!Tick
BY DEF L!Tick, LP!Tick, L!Counters, LP!Counters, L!Windows, LP!Windows, L!Due, LP!Due

(* A step that leaves its variables alone is a stutter of the limiter.      *)
LEMMA LimiterWaits == UNCHANGED <<clock, limitVars>> => UNCHANGED LP!vars
BY DEF clock, limitVars, LP!vars

(* The chain starts with an empty table.                                    *)
LEMMA IdemInit == I!Init => IP!Init
BY DEF I!Init, IP!Init, I!Operation, IP!Operation, I!Endpoints, IP!Endpoints, I!Own, IP!Own

(* A mutation arrives at the middleware as it does in Idempotency.          *)
LEMMA IdemArrives ==
  ASSUME NEW r \in Requests, I!Arrive(r)
  PROVE  IP!Arrive(r) /\ now' = now
BY DEF I!Arrive, IP!Arrive, I!SameKey, IP!SameKey, I!Keyed, IP!Keyed, I!InFlight, IP!InFlight,
       I!Disturb, IP!Disturb, I!Goto, IP!Goto

(* Its body comes.                                                          *)
LEMMA IdemReceives ==
  ASSUME NEW r \in Requests, I!Receive(r)
  PROVE  IP!Receive(r) /\ now' = now
BY DEF I!Receive, IP!Receive, I!SameKey, IP!SameKey, I!Keyed, IP!Keyed, I!Working, IP!Working,
       I!InFlight, IP!InFlight, I!Disturb, IP!Disturb, I!Goto, IP!Goto

(* The steps of Store.Get.                                                  *)
LEMMA IdemLooksUp ==
  ASSUME NEW r \in Requests,
         \/ I!Replay(r) \/ I!Refuse(r) \/ I!Miss(r) \/ I!LookupFails(r)
  PROVE  (IP!Replay(r) \/ IP!Refuse(r) \/ IP!Miss(r) \/ IP!LookupFails(r)) /\ now' = now
<1> USE DEF I!Goto, IP!Goto, I!Write, IP!Write, I!Found, IP!Found, I!RowsOf, IP!RowsOf,
            I!Matches, IP!Matches, I!Own, IP!Own, I!Disturb, IP!Disturb
<1>1. CASE I!Replay(r)
  BY <1>1 DEF I!Replay, IP!Replay
<1>2. CASE I!Refuse(r)
  BY <1>2 DEF I!Refuse, IP!Refuse
<1>3. CASE I!Miss(r)
  BY <1>3 DEF I!Miss, IP!Miss
<1>4. CASE I!LookupFails(r)
  BY <1>4 DEF I!LookupFails, IP!LookupFails
<1> QED
  BY <1>1, <1>2, <1>3, <1>4

(* The steps of the handlers.                                               *)
LEMMA IdemHandles ==
  ASSUME NEW r \in Requests,
         \/ I!Reject(r) \/ I!Execute(r) \/ I!ExecuteFails(r)
         \/ I!Acknowledge(r) \/ I!AcknowledgeLost(r) \/ I!Panic(r)
  PROVE  /\ \/ IP!Reject(r) \/ IP!Execute(r) \/ IP!ExecuteFails(r)
            \/ IP!Acknowledge(r) \/ IP!AcknowledgeLost(r) \/ IP!Panic(r)
         /\ now' = now
<1> USE DEF I!Goto, IP!Goto, I!Write, IP!Write, I!Own, IP!Own, I!Disturb, IP!Disturb,
            I!VerdictOf, IP!VerdictOf, I!AfterHandler, IP!AfterHandler, I!Keyed, IP!Keyed,
            I!CallMayFail, IP!CallMayFail, I!BackendFault, IP!BackendFault, I!Fail, IP!Fail
<1>1. CASE I!Reject(r)
  BY <1>1 DEF I!Reject, IP!Reject
<1>2. CASE I!Execute(r)
  BY <1>2 DEF I!Execute, IP!Execute
<1>3. CASE I!ExecuteFails(r)
  BY <1>3 DEF I!ExecuteFails, IP!ExecuteFails
<1>4. CASE I!Acknowledge(r)
  BY <1>4 DEF I!Acknowledge, IP!Acknowledge
<1>5. CASE I!AcknowledgeLost(r)
  BY <1>5 DEF I!AcknowledgeLost, IP!AcknowledgeLost
<1>6. CASE I!Panic(r)
  BY <1>6 DEF I!Panic, IP!Panic
<1> QED
  BY <1>1, <1>2, <1>3, <1>4, <1>5, <1>6

(* The steps of Store.Save and of ErrorHandler.                             *)
LEMMA IdemEnds ==
  ASSUME NEW r \in Requests,
         \/ I!Save(r) \/ I!SaveFails(r) \/ I!SaveNull(r) \/ I!Finish(r)
  PROVE  (IP!Save(r) \/ IP!SaveFails(r) \/ IP!SaveNull(r) \/ IP!Finish(r)) /\ now' = now
<1> USE DEF I!Goto, IP!Goto, I!Write, IP!Write, I!Own, IP!Own, I!Disturb, IP!Disturb,
            I!Captured, IP!Captured, I!Inserted, IP!Inserted, I!RowsOf, IP!RowsOf,
            I!Reported, IP!Reported, I!BackendFault, IP!BackendFault
<1>1. CASE I!Save(r)
  BY <1>1 DEF I!Save, IP!Save
<1>2. CASE I!SaveFails(r)
  BY <1>2 DEF I!SaveFails, IP!SaveFails
<1>3. CASE I!SaveNull(r)
  BY <1>3 DEF I!SaveNull, IP!SaveNull
<1>4. CASE I!Finish(r)
  BY <1>4 DEF I!Finish, IP!Finish
<1> QED
  BY <1>1, <1>2, <1>3, <1>4

(* The client of a mutation goes away.                                      *)
LEMMA IdemCancels ==
  ASSUME NEW r \in Requests, I!Cancel(r)
  PROVE  IP!Cancel(r) /\ now' = now
BY DEF I!Cancel, IP!Cancel, I!Working, IP!Working, I!InFlight, IP!InFlight

(* The clock moves.                                                         *)
LEMMA IdemTicks == I!Tick => IP!Tick
BY DEF I!Tick, IP!Tick

(* A step that leaves its variables alone is a stutter of the middleware.   *)
LEMMA IdemWaits == UNCHANGED <<clock, idemVars>> => UNCHANGED IP!vars
BY DEF clock, idemVars, IP!vars

----------------------------------------------------------------------------
(* Every step of the chain is a step of each part, or leaves it alone.      *)

(* clock is the clock.                                                      *)
LEMMA ClockVars == clock = now
BY DEF clock

(* A step of the chain is a step of the limiter or a stutter.               *)
LEMMA LimiterStep == [Next]_vars => [LP!Next]_LP!vars
<1> SUFFICES ASSUME [Next]_vars PROVE [LP!Next]_LP!vars
  OBVIOUS
<1> USE ClockVars
<1>1. ASSUME NEW r \in Requests, Enter(r) PROVE [LP!Next]_LP!vars
  <2>1. CASE L!Arrive(r)
    BY <2>1, LimiterArrives DEF LP!Next
  <2>2. CASE UNCHANGED <<clock, limitVars>>
    BY <2>2, LimiterWaits
  <2> QED
    BY <1>1, <2>1, <2>2 DEF Enter
<1>2. ASSUME NEW r \in Requests, RateLimits(r) PROVE [LP!Next]_LP!vars
  BY <1>2, LimiterServes DEF RateLimits, LP!Next
<1>3. ASSUME NEW r \in Requests, ToMutation(r) \/ Receives(r) \/ Mutates(r) \/ Stores(r)
                                   \/ Returns(r) \/ Fails(r) \/ Panics(r) \/ Abandons(r) \/ Quits(r)
      PROVE  [LP!Next]_LP!vars
  <2>1. UNCHANGED limitVars
    BY <1>3 DEF ToMutation, Receives, Mutates, Stores, Returns, Fails, Panics, Abandons, Quits
  <2>2. \/ I!Arrive(r) \/ I!Receive(r) \/ I!Cancel(r)
        \/ I!Replay(r) \/ I!Refuse(r) \/ I!Miss(r) \/ I!LookupFails(r)
        \/ I!Reject(r) \/ I!Execute(r) \/ I!ExecuteFails(r)
        \/ I!Acknowledge(r) \/ I!AcknowledgeLost(r) \/ I!Panic(r)
        \/ I!Save(r) \/ I!SaveFails(r) \/ I!SaveNull(r) \/ I!Finish(r)
    BY <1>3 DEF ToMutation, Receives, Mutates, Stores, Returns, Fails, Panics, Abandons, Quits
  <2>3. now' = now
    BY <2>2, IdemArrives, IdemReceives, IdemCancels, IdemLooksUp, IdemHandles, IdemEnds
  <2> QED
    BY <2>1, <2>3, LimiterWaits DEF clock
<1>4. ASSUME NEW r \in Requests,
             \/ Redirect(r) \/ AnswerDirectly(r) \/ Refused(r) \/ ToQuery(r) \/ Acquire(r)
             \/ Query(r) \/ QueryFails(r) \/ QueryPanics(r) \/ Leave(r) \/ Hang(r)
             \/ QueryQuits(r)
      PROVE  [LP!Next]_LP!vars
  <2>1. UNCHANGED <<clock, limitVars>>
    BY <1>4 DEF Redirect, AnswerDirectly, Refused, ToQuery, Acquire, Query, QueryFails,
                QueryPanics, QueryAnswers, Leave, Hang, QueryQuits
  <2> QED
    BY <2>1, LimiterWaits
<1>5. CASE Tick
  BY <1>5, LimiterTicks DEF Tick, LP!Next
<1>6. CASE UNCHANGED vars
  BY <1>6, LimiterWaits DEF vars
<1> QED
  BY <1>1, <1>2, <1>3, <1>4, <1>5, <1>6 DEF Next, Serve

(* A step of the chain is a step of the middleware or a stutter.            *)
LEMMA IdemStep == [Next]_vars => [IP!Next]_IP!vars
<1> SUFFICES ASSUME [Next]_vars PROVE [IP!Next]_IP!vars
  OBVIOUS
<1>1. ASSUME NEW r \in Requests, Enter(r) \/ RateLimits(r) PROVE [IP!Next]_IP!vars
  <2>1. UNCHANGED idemVars
    BY <1>1 DEF Enter, RateLimits
  <2>2. L!Arrive(r) \/ L!Serve(r) \/ UNCHANGED clock
    BY <1>1 DEF Enter, RateLimits
  <2>3. now' = now
    BY <2>2, LimiterArrives, LimiterServes DEF clock
  <2> QED
    BY <2>1, <2>3, IdemWaits DEF clock
<1>2. ASSUME NEW r \in Requests, ToMutation(r) \/ Receives(r) \/ Mutates(r) \/ Stores(r)
                                   \/ Returns(r) \/ Fails(r) \/ Panics(r) \/ Abandons(r) \/ Quits(r)
      PROVE  [IP!Next]_IP!vars
  <2>1. \/ I!Arrive(r) \/ I!Receive(r) \/ I!Cancel(r)
        \/ I!Replay(r) \/ I!Refuse(r) \/ I!Miss(r) \/ I!LookupFails(r)
        \/ I!Reject(r) \/ I!Execute(r) \/ I!ExecuteFails(r)
        \/ I!Acknowledge(r) \/ I!AcknowledgeLost(r) \/ I!Panic(r)
        \/ I!Save(r) \/ I!SaveFails(r) \/ I!SaveNull(r) \/ I!Finish(r)
    BY <1>2 DEF ToMutation, Receives, Mutates, Stores, Returns, Fails, Panics, Abandons, Quits
  <2>2. IP!Arrive(r) \/ IP!Receive(r) \/ IP!Cancel(r) \/ IP!Serve(r)
    BY <2>1, IdemArrives, IdemReceives, IdemCancels, IdemLooksUp, IdemHandles, IdemEnds DEF
       IP!Serve
  <2> QED
    BY <2>2 DEF IP!Next
<1>3. ASSUME NEW r \in Requests,
             \/ Redirect(r) \/ AnswerDirectly(r) \/ Refused(r) \/ ToQuery(r) \/ Acquire(r)
             \/ Query(r) \/ QueryFails(r) \/ QueryPanics(r) \/ Leave(r) \/ Hang(r)
             \/ QueryQuits(r)
      PROVE  [IP!Next]_IP!vars
  <2>1. UNCHANGED <<clock, idemVars>>
    BY <1>3 DEF Redirect, AnswerDirectly, Refused, ToQuery, Acquire, Query, QueryFails,
                QueryPanics, QueryAnswers, Leave, Hang, QueryQuits
  <2> QED
    BY <2>1, IdemWaits
<1>4. CASE Tick
  BY <1>4, IdemTicks DEF Tick, IP!Next
<1>5. CASE UNCHANGED vars
  BY <1>5, IdemWaits DEF vars
<1> QED
  BY <1>1, <1>2, <1>3, <1>4, <1>5 DEF Next, Serve

(* A behaviour of the chain is a behaviour of the limiter: the middleware   *)
(* and the pool around it add no step of its own kind to it.                *)
THEOREM ImplementsLimiter == Spec => LP!Spec
<1>1. Init => LP!Init
  BY LimiterInit DEF Init
<1> QED
  BY <1>1, LimiterStep, PTL DEF Spec, LP!Spec

(* And a behaviour of the idempotency middleware, whose promises (see       *)
(* IdempotencyProofs) therefore hold behind the limiter and over the pool.  *)
THEOREM ImplementsIdempotency == Spec => IP!Spec
<1>1. Init => IP!Init
  BY IdemInit DEF Init
<1> QED
  BY <1>1, IdemStep, PTL DEF Spec, IP!Spec

----------------------------------------------------------------------------
(* What is known of the parts in every state of the chain.                  *)

PartsInv == LP!LimitInv /\ LP!CapPerWindow /\ IP!ReplayInv /\ IP!ProtectionInv /\ IP!ReplaySound

(* What the limiter and the middleware assume of the constants holds.       *)
LEMMA PartAssumptions == LP!RateLimitAssumption /\ IP!IdempotencyAssumption
<1>1. LP!RateLimitAssumption
  BY PipelineAssumption DEF L!RateLimitAssumption, LP!RateLimitAssumption, L!IsFiniteSet,
     LP!IsFiniteSet
<1>2. IP!IdempotencyAssumption
  BY PipelineAssumption DEF I!IdempotencyAssumption, IP!IdempotencyAssumption, I!Endpoints,
     IP!Endpoints, I!Verdicts, IP!Verdicts, I!FaultKinds, IP!FaultKinds
<1> QED
  BY <1>1, <1>2

(* The invariants proved of the limiter and of the middleware hold behind   *)
(* each other.                                                              *)
THEOREM PartsInvariant == Spec => []PartsInv
BY PartAssumptions, ImplementsLimiter, ImplementsIdempotency, LP!LimitInvariant, LP!TheLimit,
   IP!ReplayInvariant, IP!Protection, IP!ReplaysAreSound, PTL DEF PartsInv

(* The refinements compose: the chain, with its limiter, its pool, its      *)
(* timeouts and its panics, implements what OnceOnly promises of a keyed    *)
(* request, as the middleware does by itself.                               *)
THEOREM KeepsPromiseBehind == Spec => IP!KeepsPromise
BY PartAssumptions, ImplementsIdempotency, IP!Implementation, PTL

(* Clients of one key may conclude from their answers in the chain what     *)
(* they may in front of the middleware alone: while the key is undisturbed  *)
(* they all get the same one and nobody is refused without reuse, and       *)
(* replays agree always.                                                    *)
THEOREM AnswersBehind == Spec => [](IP!SameAnswer /\ IP!RefusedOnlyOnReuse /\ IP!ReplaysAgree)
BY PartAssumptions, ImplementsIdempotency, IP!AnswersAgree, IP!RefusedOnlyForReuse,
   IP!ReplaysAlwaysAgree, PTL

(* A request that the limiter let through stays let through.                *)
LEMMA PassedStays ==
  ASSUME LP!TypeOK, [Next]_vars, NEW r \in Requests, Passes(r)
  PROVE  Passes(r)'
<1>1. [LP!Next]_LP!vars
  BY LimiterStep
<1>2. lpc'[r] = lpc[r]
  <2>1. ASSUME NEW q \in Requests, LP!Arrive(q) \/ LP!Serve(q) PROVE lpc'[r] = lpc[r]
    <3>1. lpc[q] \in {"idle", "incr", "expire", "decide"}
      BY <2>1 DEF LP!Arrive, LP!Serve, LP!Incr, LP!IncrReplyLost, LP!IncrFails, LP!Expire,
                  LP!ExpireFails, LP!Decide
    <3>2. q # r
      BY <3>1 DEF Passes
    <3> QED
      BY <2>1, <3>2 DEF LP!Arrive, LP!Serve, LP!Incr, LP!IncrReplyLost, LP!IncrFails, LP!Expire,
                        LP!ExpireFails, LP!Decide, LP!RetryOrOpen, LP!Goto, LP!TypeOK
  <2>2. CASE LP!Crash
    BY <2>2 DEF LP!Crash
  <2>3. CASE UNCHANGED lpc
    BY <2>3
  <2> QED
    BY <1>1, <2>1, <2>2, <2>3 DEF LP!Next, LP!Tick, LP!Ended, LP!vars
<1> QED
  BY <1>2 DEF Passes

----------------------------------------------------------------------------
(* What each step of the chain changes.                                     *)

(* The steps in which a request takes part in the middleware, and the rest. *)
InMiddleware(r) ==
  \/ ToMutation(r) \/ Receives(r) \/ Mutates(r) \/ Stores(r)
  \/ Returns(r) \/ Fails(r) \/ Panics(r) \/ Abandons(r)

(* Only these move a request in the middleware, and only one that is in it, *)
(* or that the limiter let through.                                         *)
LEMMA MiddlewareMoves ==
  ASSUME IP!TypeOK, [Next]_vars, NEW r \in Requests, ipc'[r] # ipc[r] \/ resp'[r] # resp[r]
  PROVE  /\ ipc[r] \notin {"idle", "answered"} \/ ToMutation(r)
         /\ InMiddleware(r)
<1>1. ASSUME NEW q \in Requests, InMiddleware(q)
      PROVE  /\ ipc[q] \notin {"idle", "answered"} \/ ToMutation(q)
             /\ q # r => ipc'[r] = ipc[r] /\ resp'[r] = resp[r]
  <2>1. \/ IP!Arrive(q) /\ ToMutation(q)
        \/ IP!Receive(q)
        \/ IP!Replay(q) \/ IP!Refuse(q) \/ IP!Miss(q) \/ IP!LookupFails(q)
        \/ IP!Reject(q) \/ IP!Execute(q) \/ IP!ExecuteFails(q)
        \/ IP!Acknowledge(q) \/ IP!AcknowledgeLost(q) \/ IP!Panic(q)
        \/ IP!Save(q) \/ IP!SaveFails(q) \/ IP!SaveNull(q) \/ IP!Finish(q)
    BY <1>1, IdemArrives, IdemReceives, IdemLooksUp, IdemHandles, IdemEnds
       DEF InMiddleware, ToMutation, Receives, Mutates, Stores, Returns, Fails, Panics, Abandons
  <2> USE DEF IP!Goto, IP!Write, IP!TypeOK
  <2>2. CASE IP!Arrive(q) /\ ToMutation(q)
    BY <2>2 DEF IP!Arrive
  <2>6. CASE IP!Receive(q)
    BY <2>6 DEF IP!Receive
  <2>3. CASE IP!Replay(q) \/ IP!Refuse(q) \/ IP!Miss(q) \/ IP!LookupFails(q)
    BY <2>3 DEF IP!Replay, IP!Refuse, IP!Miss, IP!LookupFails
  <2>4. CASE \/ IP!Reject(q) \/ IP!Execute(q) \/ IP!ExecuteFails(q)
             \/ IP!Acknowledge(q) \/ IP!AcknowledgeLost(q) \/ IP!Panic(q)
    BY <2>4 DEF IP!Reject, IP!Execute, IP!ExecuteFails, IP!Acknowledge, IP!AcknowledgeLost,
                IP!Panic, IP!Fail
  <2>5. CASE IP!Save(q) \/ IP!SaveFails(q) \/ IP!SaveNull(q) \/ IP!Finish(q)
    BY <2>5 DEF IP!Save, IP!SaveFails, IP!SaveNull, IP!Finish
  <2> QED
    BY <2>1, <2>2, <2>3, <2>4, <2>5, <2>6
<1>2. ASSUME NEW q \in Requests,
             \/ Enter(q) \/ Redirect(q) \/ AnswerDirectly(q) \/ RateLimits(q) \/ Refused(q)
             \/ ToQuery(q) \/ Acquire(q) \/ Query(q) \/ QueryFails(q) \/ QueryPanics(q) \/ Leave(q)
             \/ Hang(q) \/ QueryQuits(q) \/ Quits(q)
      PROVE  FALSE
  <2>1. ipc' = ipc /\ resp' = resp
    BY <1>2 DEF Enter, Redirect, AnswerDirectly, RateLimits, Refused, ToQuery, Acquire, Query,
       QueryFails, QueryPanics, QueryAnswers, Leave, Hang, QueryQuits, Quits, I!Cancel, idemVars
  <2> QED
    BY <2>1
<1>3. CASE Tick \/ UNCHANGED vars
  BY <1>3 DEF Tick, I!Tick, vars, idemVars
<1>4. PICK q \in Requests : InMiddleware(q)
  BY <1>2, <1>3 DEF Next, Serve, InMiddleware
<1> QED
  BY <1>1, <1>4

(* Only these steps move a request in the outer chain.                      *)
LEMMA StageMoves ==
  ASSUME TypeOK, [Next]_vars, NEW r \in Requests, stage'[r] # stage[r] \/ wrote'[r] # wrote[r]
  PROVE  \/ Enter(r) \/ Redirect(r) \/ AnswerDirectly(r) \/ Refused(r) \/ ToQuery(r)
         \/ Query(r) \/ QueryFails(r) \/ QueryPanics(r) \/ Leave(r)
<1>1. CASE UNCHANGED <<stage, wrote>>
  BY <1>1
<1>2. CASE \E q \in Requests : InMiddleware(q) \/ RateLimits(q) \/ Acquire(q) \/ Hang(q)
                                  \/ QueryQuits(q) \/ Quits(q)
  BY <1>2 DEF InMiddleware, ToMutation, Receives, Mutates, Stores, Returns, Fails, Panics,
       Abandons, RateLimits, Acquire, Hang, QueryQuits, Quits, queryVars
<1>3. ASSUME NEW q \in Requests,
             \/ Enter(q) \/ Redirect(q) \/ AnswerDirectly(q) \/ Refused(q) \/ ToQuery(q)
             \/ Query(q) \/ QueryFails(q) \/ QueryPanics(q) \/ Leave(q)
      PROVE  q = r
  BY <1>3 DEF Enter, Redirect, AnswerDirectly, Refused, ToQuery, Query, QueryFails,
       QueryPanics, QueryAnswers, Leave, Stage, Writes, TypeOK, queryVars
<1> QED
  BY <1>1, <1>2, <1>3 DEF Next, Serve, Tick, vars, queryVars, InMiddleware

(* The route of a request is fixed.                                         *)
LEMMA RoutesFixed ==
  ASSUME [Next]_vars
  PROVE  route' = route
BY DEF Next, Serve, Redirect, Receives, Abandons, Enter, AnswerDirectly, RateLimits, Refused,
   ToMutation, ToQuery, Acquire, Query, QueryFails, QueryPanics, QueryAnswers, Mutates, Stores,
   Returns, Fails, Panics, Leave, Hang, QueryQuits, Quits, Tick, vars

(* Every step keeps BehindLimiter.                                          *)
LEMMA BehindStep ==
  TypeOK /\ BehindLimiter /\ PartsInv /\ [Next]_vars => BehindLimiter'
<1> SUFFICES ASSUME TypeOK, BehindLimiter, PartsInv, [Next]_vars, NEW r \in Requests
             PROVE  /\ ipc'[r] # "idle" =>
                         /\ route'[r] = "mutation" /\ Passes(r)'
                         /\ stage'[r] \in {"inside", "left"}
                    /\ stage'[r] = "left" => ipc'[r] \in {"idle", "answered"}
                    /\ stage'[r] = "query" => route'[r] = "query"
                    /\ stage'[r] \notin {"outside", "left"} => Chained(r)'
                    /\ wrote'[r] \in {"blank", "ok", "notfound", "limited", "internal",
                                     "redirected"}
  BY DEF BehindLimiter
<1>1. LP!TypeOK /\ IP!TypeOK
  BY DEF PartsInv, LP!LimitInv, IP!ReplayInv, IP!TypeInv
<1>2. route' = route
  BY RoutesFixed
<1>3. CASE stage'[r] # stage[r] \/ wrote'[r] # wrote[r]
  <2>1. ipc' = ipc
    BY <1>3, StageMoves DEF Enter, Redirect, AnswerDirectly, Refused, ToQuery, Query, QueryFails,
         QueryPanics, QueryAnswers, Leave, idemVars
  <2>2. ipc'[r] # "idle" => Passes(r)'
    BY <1>1, <2>1, PassedStays DEF BehindLimiter
  <2>3. CASE Enter(r) \/ ToQuery(r)
    BY <1>2, <2>1, <2>2, <2>3 DEF Enter, ToQuery, Stage, TypeOK, BehindLimiter, Chained, queryVars
  <2>4. CASE AnswerDirectly(r) \/ Refused(r) \/ Redirect(r)
    BY <1>2, <2>1, <2>2, <2>4 DEF AnswerDirectly, Redirect, Refused, Stage, Writes, TypeOK,
         BehindLimiter, Chained, InApi, Passes
  <2>5. CASE Query(r) \/ QueryFails(r) \/ QueryPanics(r)
    BY <1>2, <2>1, <2>2, <2>5 DEF Query, QueryFails, QueryPanics, QueryAnswers, ErrorAnswer,
         Stage, Writes, TypeOK, BehindLimiter, Chained
  <2>6. CASE Leave(r)
    BY <1>2, <2>1, <2>2, <2>6 DEF Leave, Stage, TypeOK, BehindLimiter, Chained, queryVars
  <2> QED
    BY <1>3, <2>3, <2>4, <2>5, <2>6, StageMoves
<1>4. CASE stage'[r] = stage[r] /\ wrote'[r] = wrote[r]
  <2>1. CASE ipc'[r] = ipc[r]
    BY <1>1, <1>2, <1>4, <2>1, PassedStays DEF BehindLimiter, Chained
  <2>2. CASE ipc'[r] # ipc[r]
    <3>1. (ipc[r] \notin {"idle", "answered"} \/ ToMutation(r)) /\ InMiddleware(r)
      BY <1>1, <2>2, MiddlewareMoves
    <3>2. Passes(r) /\ route[r] = "mutation" /\ stage[r] = "inside"
      BY <3>1 DEF ToMutation, BehindLimiter
    <3> QED
      BY <1>1, <1>2, <1>4, <3>2, PassedStays DEF BehindLimiter, Chained
  <2> QED
    BY <2>1, <2>2
<1> QED
  BY <1>3, <1>4

----------------------------------------------------------------------------
(* The limit holds for what the requests do.                                *)

(* The parts count as this module does.                                     *)
LEMMA Counting ==
  ASSUME NEW S
  PROVE  /\ LP!Cardinality(S) = Cardinality(S)
         /\ LP!IsFiniteSet(S) = IsFiniteSet(S)
BY DEF Cardinality, LP!Cardinality, IsFiniteSet, LP!IsFiniteSet

(* There are finitely many requests.                                        *)
LEMMA FiniteRequests == IsFiniteSet(Requests)
BY PipelineAssumption DEF L!RateLimitAssumption, L!IsFiniteSet, IsFiniteSet

(* Whoever stored or replayed something is in the middleware.               *)
LEMMA EffectsAreBehind ==
  ASSUME PartsInv, NEW r \in Requests, r \in effects \/ resp[r].of # r
  PROVE  ipc[r] # "idle"
BY DEF PartsInv, IP!ProtectionInv, IP!EffectKept, IP!ReplayInv, IP!ReplayFromRow

(* The limit of what passes is one of what takes effect.                    *)
LEMMA LimitStep == TypeOK /\ BehindLimiter /\ PartsInv => EffectsWithinLimit
<1> SUFFICES ASSUME TypeOK, BehindLimiter, PartsInv, NEW k \in L!Counters
             PROVE  /\ Cardinality({r \in Requests :
                           /\ r \in effects \/ resp[r].of # r
                           /\ lpc[r] # "opened" /\ L!KeyOf(r) = k /\ L!InWindow(r)})
                         <= L!AtLeastZero(Limit)
                    /\ \A row \in table : lpc[row.resp.of] # "refused"
  BY DEF EffectsWithinLimit
<1> DEFINE S == {r \in Requests : /\ r \in effects \/ resp[r].of # r
                                  /\ lpc[r] # "opened" /\ L!KeyOf(r) = k /\ L!InWindow(r)}
           T == {r \in Requests : lpc[r] = "admitted" /\ LP!KeyOf(r) = k /\ LP!InWindow(r)}
<1>1. ASSUME NEW r \in Requests, ipc[r] # "idle" PROVE lpc[r] \in {"admitted", "opened"}
  BY <1>1 DEF BehindLimiter, Passes
<1>2. S \subseteq T
  BY <1>1, EffectsAreBehind DEF L!KeyOf, LP!KeyOf, L!InWindow, LP!InWindow, L!WindowEnd,
     LP!WindowEnd
<1>3. k \in LP!Counters
  BY DEF L!Counters, LP!Counters, L!Windows, LP!Windows
<1>4. Cardinality(T) <= L!AtLeastZero(Limit)
  BY <1>3, Counting DEF PartsInv, LP!CapPerWindow, L!AtLeastZero, LP!AtLeastZero
<1>5. IsFiniteSet(T)
  BY FiniteRequests, FS_Subset
<1> HIDE DEF S, T
<1>6. /\ Cardinality(S) <= Cardinality(T)
      /\ Cardinality(S) \in Nat /\ Cardinality(T) \in Nat
  BY <1>2, <1>5, FS_Subset, FS_CardinalityType
<1>7. L!AtLeastZero(Limit) \in Int
  BY PipelineAssumption DEF L!RateLimitAssumption, L!AtLeastZero
<1>8. Cardinality(S) <= L!AtLeastZero(Limit)
  BY <1>4, <1>6, <1>7
<1>9. ASSUME NEW row \in table PROVE lpc[row.resp.of] # "refused"
  <2>1. row.resp.of \in Requests /\ ipc[row.resp.of] # "idle"
    BY DEF PartsInv, IP!ReplayInv, IP!TypeInv, IP!TypeOK, IP!Row, IP!Response, IP!RowsCaptured
  <2> QED
    BY <1>1, <2>1
<1> QED
  BY <1>8, <1>9 DEF S

----------------------------------------------------------------------------
(* Whoever was told of a todo finds it.                                     *)

(* An id that a client was told is that of a stored todo.                   *)
LEMMA ToldWereStored == TypeOK /\ BehindLimiter /\ PartsInv => Told \subseteq effects
<1> SUFFICES ASSUME BehindLimiter, PartsInv, NEW p \in Requests, stage[p] = "left",
                    Answer(p) = "created"
             PROVE  resp[p].of \in effects
  BY DEF Told
<1>1. resp[p].kind = "created"
  BY DEF Answer, BehindLimiter
<1> QED
  BY <1>1 DEF PartsInv, IP!ReplaySound

(* Every step keeps TargetsStored.                                          *)
LEMMA TargetsStep ==
  TypeOK /\ BehindLimiter /\ TargetsStored /\ PartsInv /\ [Next]_vars => TargetsStored'
<1> SUFFICES ASSUME TypeOK, BehindLimiter, TargetsStored, PartsInv, [Next]_vars,
                    NEW r \in Requests
             PROVE  /\ target'[r] \in effects' \union {NoTodo, NoUuid}
                    /\ stage'[r] = "outside" => wrote'[r] = "blank"
                    /\ route'[r] = "query" /\ target'[r] \in Requests => wrote'[r] # "notfound"
  BY DEF TargetsStored
<1>1. effects \subseteq effects'
  BY IdemStep, IP!Monotone, PartAssumptions
<1>2. route' = route
  BY RoutesFixed
<1>3. CASE target' = target
  <2>1. CASE stage'[r] = stage[r] /\ wrote'[r] = wrote[r]
    BY <1>1, <1>2, <1>3, <2>1 DEF TargetsStored
  <2>2. CASE Enter(r) \/ ToQuery(r) \/ Leave(r)
    BY <1>1, <1>2, <1>3, <2>2 DEF TargetsStored, Enter, ToQuery, Leave, Stage, TypeOK, queryVars
  <2>3. CASE AnswerDirectly(r) \/ Refused(r) \/ Redirect(r)
    BY <1>1, <1>2, <1>3, <2>3 DEF TargetsStored, AnswerDirectly, Redirect, Refused, InApi,
       Stage, Writes, TypeOK
  <2>4. CASE Query(r) \/ QueryFails(r) \/ QueryPanics(r)
    BY <1>1, <1>2, <1>3, <2>4, PipelineAssumption
       DEF TargetsStored, Query, QueryFails, QueryPanics, QueryAnswers, ErrorAnswer, Stage,
           Writes, TypeOK
  <2> QED
    BY <2>1, <2>2, <2>3, <2>4, StageMoves
<1>4. CASE target' # target
  <2>1. PICK q \in Requests : Enter(q) /\ route[q] = "query"
    BY <1>4 DEF Next, Serve, Redirect, Receives, Abandons, Enter, AnswerDirectly, RateLimits,
       Refused, ToMutation, ToQuery, Acquire, Query, QueryFails, QueryPanics, QueryAnswers,
       Mutates, Stores, Returns, Fails, Panics, Leave, Hang, QueryQuits, Quits, Tick, vars,
       queryVars
  <2>2. PICK id \in Told \union {NoTodo, NoUuid} : target' = [target EXCEPT ![q] = id]
    BY <2>1 DEF Enter
  <2>3. wrote' = wrote /\ stage'[q] = "inside" /\ wrote[q] = "blank"
        /\ \A p \in Requests \ {q} : stage'[p] = stage[p]
    BY <2>1 DEF Enter, Stage, TypeOK, TargetsStored
  <2> QED
    BY <1>1, <1>2, <2>2, <2>3, ToldWereStored DEF TargetsStored, TypeOK
<1> QED
  BY <1>3, <1>4

----------------------------------------------------------------------------
(* The log and the metrics.                                                 *)

(* Logger and Metrics are outside Recover and ErrorHandler: they resume for *)
(* every request, and find its last status.                                 *)
LEMMA SeenAsAnswered ==
  ASSUME NEW r \in Requests, NEW name \in {"Logger", "Metrics"}
  PROVE  Resumes(name, r) /\ SeenBy(name, r) = Answer(r)
<1>1. /\ Position("Logger") = 2 /\ Position("Metrics") = 3
      /\ Position("Recover") = 4 /\ Position("ErrorHandler") = 5
  BY DEF Position, Chain
<1> QED
  BY <1>1 DEF Encloses, Resumes, SeenBy

(* An answer is an answer.                                                  *)
LEMMA AnswerType ==
  ASSUME TypeOK, PartsInv, NEW r \in Requests
  PROVE  Answer(r) \in Answers
<1>1. resp[r].kind \in I!Kinds
  BY DEF PartsInv, IP!ReplayInv, IP!TypeInv, IP!TypeOK, IP!Response, IP!Kinds, I!Kinds
<1> QED
  BY <1>1 DEF Answer, Answers, TypeOK

(* A request that has left stays so, and its answer is fixed.               *)
LEMMA LeftIsLeft ==
  ASSUME TypeOK, BehindLimiter, PartsInv, [Next]_vars, NEW r \in Requests, stage[r] = "left"
  PROVE  stage'[r] = "left" /\ Answer(r)' = Answer(r)
<1>1. stage'[r] = stage[r] /\ wrote'[r] = wrote[r]
  BY StageMoves DEF Enter, Redirect, AnswerDirectly, Refused, ToQuery, Query, QueryFails,
     QueryPanics, QueryAnswers, Leave, BehindLimiter
<1>2. ipc'[r] = ipc[r] /\ resp'[r] = resp[r]
  <2>1. ipc[r] \in {"idle", "answered"} /\ ~ ToMutation(r)
    BY DEF BehindLimiter, ToMutation
  <2> QED
    BY <2>1, MiddlewareMoves DEF PartsInv, IP!ReplayInv, IP!TypeInv
<1> QED
  BY <1>1, <1>2, RoutesFixed DEF Answer

(* The requests that the log and the metrics are about.                     *)
LeftOnes == {q \in Requests : stage[q] = "left" /\ Chained(q)}
LeftWith(a) ==
  {q \in Requests : stage[q] = "left" /\ Chained(q) /\ ~ Skipped(q) /\ Answer(q) = a}
InsideOnes == {q \in Requests : stage[q] \notin {"outside", "left"} /\ ~ Skipped(q)}

(* ObservedAsAnswered, in these terms.                                      *)
LEMMA ObservedOnes ==
  ObservedAsAnswered <=>
    /\ log = {<<q, Answer(q)>> : q \in LeftOnes}
    /\ \A a \in Answers : total[a] = Cardinality(LeftWith(a))
    /\ inFlight = Cardinality(InsideOnes)
BY DEF ObservedAsAnswered, LeftOnes, LeftWith, InsideOnes

(* These sets can be counted.                                               *)
LEMMA FiniteOnes ==
  /\ IsFiniteSet(InsideOnes) /\ \A a \in Answers : IsFiniteSet(LeftWith(a))
  /\ Cardinality(InsideOnes) \in Nat
<1>1. IsFiniteSet(InsideOnes) /\ \A a \in Answers : IsFiniteSet(LeftWith(a))
  BY FiniteRequests, FS_Subset DEF InsideOnes, LeftWith
<1> QED
  BY <1>1, FS_CardinalityType

(* The request that leaves is logged and counted, once.                     *)
LEMMA LeaveObserved ==
  ASSUME TypeOK, BehindLimiter, PartsInv, ObservedAsAnswered, [Next]_vars,
         NEW r \in Requests, Leave(r)
  PROVE  ObservedAsAnswered'
<1>1. /\ stage[r] \notin {"outside", "left"} /\ Chained(r)
      /\ stage' = [stage EXCEPT ![r] = "left"]
      /\ inFlight' = GaugeAfter(r)
      /\ total' = IF Skipped(r) THEN total ELSE [total EXCEPT ![Answer(r)] = @ + 1]
      /\ log' = log \union {<<r, Answer(r)>>}
      /\ UNCHANGED <<route, wrote, ipc, resp>>
  BY SeenAsAnswered DEF Leave, Stage, BehindLimiter, queryVars, idemVars
<1>2. \A q \in Requests : /\ Answer(q)' = Answer(q) /\ Skipped(q)' = Skipped(q)
                            /\ Chained(q)' = Chained(q)
  BY <1>1 DEF Answer, Skipped, Chained
<1>3. \A q \in Requests : stage'[q] = IF q = r THEN "left" ELSE stage[q]
  BY <1>1 DEF TypeOK
<1>4. LeftOnes' = LeftOnes \union {r}
  BY <1>1, <1>2, <1>3 DEF LeftOnes
<1>5. ASSUME NEW a \in Answers PROVE total'[a] = Cardinality(LeftWith(a)')
  <2>1. total[a] = Cardinality(LeftWith(a)) /\ IsFiniteSet(LeftWith(a))
    BY ObservedOnes, FiniteOnes
  <2>2. CASE ~ Skipped(r) /\ Answer(r) = a
    <3>1. LeftWith(a)' = LeftWith(a) \union {r} /\ r \notin LeftWith(a)
      BY <1>1, <1>2, <1>3, <2>2 DEF LeftWith
    <3>2. total'[a] = total[a] + 1
      BY <1>1, <2>2 DEF TypeOK
    <3> QED
      BY <2>1, <3>1, <3>2, FS_AddElement
  <2>3. CASE ~ (~ Skipped(r) /\ Answer(r) = a)
    <3>1. LeftWith(a)' = LeftWith(a)
      BY <1>1, <1>2, <1>3, <2>3 DEF LeftWith
    <3>2. total'[a] = total[a]
      BY <1>1, <2>3 DEF TypeOK
    <3> QED
      BY <2>1, <3>1, <3>2
  <2> QED
    BY <2>2, <2>3
<1>6. inFlight' = Cardinality(InsideOnes')
  <2>1. inFlight = Cardinality(InsideOnes) /\ IsFiniteSet(InsideOnes)
    BY ObservedOnes, FiniteOnes
  <2>2. CASE Skipped(r)
    <3>1. InsideOnes' = InsideOnes
      BY <1>2, <1>3, <2>2 DEF InsideOnes
    <3> QED
      BY <1>1, <2>1, <2>2, <3>1 DEF GaugeAfter
  <2>3. CASE ~ Skipped(r)
    <3>1. InsideOnes' = InsideOnes \ {r} /\ r \in InsideOnes
      BY <1>1, <1>2, <1>3, <2>3 DEF InsideOnes
    <3> QED
      BY <1>1, <2>1, <2>3, <3>1, FS_RemoveElement DEF GaugeAfter
  <2> QED
    BY <2>2, <2>3
<1>7. log' = {<<q, Answer(q)>> : q \in LeftOnes}'
  BY <1>1, <1>2, <1>4, ObservedOnes DEF LeftOnes
<1> QED
  BY <1>5, <1>6, <1>7 DEF ObservedAsAnswered, LeftOnes, LeftWith, InsideOnes

(* The steps of a request before it leaves.                                 *)
LEMMA OthersObserved ==
  ASSUME TypeOK, BehindLimiter, PartsInv, ObservedAsAnswered, [Next]_vars,
         \A r \in Requests : ~ Leave(r)
  PROVE  ObservedAsAnswered'
<1>1. \A q \in Requests : Skipped(q)' = Skipped(q) /\ Chained(q)' = Chained(q)
  BY RoutesFixed DEF Skipped, Chained
<1>2. \A q \in Requests : Chained(q) => (stage'[q] = "left" <=> stage[q] = "left")
  BY LeftIsLeft, StageMoves DEF Enter, Redirect, AnswerDirectly, Refused, ToQuery, Query,
     QueryFails, QueryPanics, QueryAnswers, Stage, TypeOK
<1>3. LeftOnes' = LeftOnes
  BY <1>1, <1>2 DEF LeftOnes
<1>4. \A q \in LeftOnes : Answer(q)' = Answer(q)
  BY LeftIsLeft DEF LeftOnes
<1>5. \A a \in Answers : LeftWith(a)' = LeftWith(a)
  BY <1>1, <1>2, <1>4 DEF LeftWith, LeftOnes
<1>6. log' = log /\ total' = total
  BY DEF Next, Serve, Redirect, Receives, Abandons, Enter, AnswerDirectly, RateLimits, Refused,
     ToMutation, ToQuery, Acquire, Query, QueryFails, QueryPanics, QueryAnswers, Mutates,
     Stores, Returns, Fails, Panics, Hang, QueryQuits, Quits, Tick, vars, seenVars
<1>7. inFlight' = Cardinality(InsideOnes')
  <2>1. inFlight = Cardinality(InsideOnes) /\ IsFiniteSet(InsideOnes)
    BY ObservedOnes, FiniteOnes
  <2>2. CASE \E r \in Requests : Enter(r)
    <3>1. PICK r \in Requests : Enter(r)
      BY <2>2
    <3>2. /\ stage[r] = "outside"
          /\ \A q \in Requests : stage'[q] = IF q = r THEN "inside" ELSE stage[q]
          /\ inFlight' = IF Skipped(r) THEN inFlight ELSE inFlight + 1
      BY <3>1 DEF Enter, Stage, TypeOK
    <3>3. CASE Skipped(r)
      <4>1. InsideOnes' = InsideOnes
        BY <1>1, <3>2, <3>3 DEF InsideOnes
      <4> QED
        BY <2>1, <3>2, <3>3, <4>1
    <3>4. CASE ~ Skipped(r)
      <4>1. InsideOnes' = InsideOnes \union {r} /\ r \notin InsideOnes
        BY <1>1, <3>2, <3>4 DEF InsideOnes
      <4> QED
        BY <2>1, <3>2, <3>4, <4>1, FS_AddElement
    <3> QED
      BY <3>3, <3>4
  <2>3. CASE \A r \in Requests : ~ Enter(r)
    <3>1. \A q \in Requests :
            stage'[q] \in {"outside", "left"} <=> stage[q] \in {"outside", "left"}
      BY <2>3, StageMoves DEF Redirect, AnswerDirectly, Refused, ToQuery, Query, QueryFails,
         QueryPanics, QueryAnswers, Stage, TypeOK
    <3>2. InsideOnes' = InsideOnes
      BY <1>1, <3>1 DEF InsideOnes
    <3>3. inFlight' = inFlight
      BY <2>3 DEF Next, Serve, Redirect, Receives, Abandons, AnswerDirectly, RateLimits,
         Refused, ToMutation, ToQuery, Acquire, Query, QueryFails, QueryPanics, QueryAnswers,
         Mutates, Stores, Returns, Fails, Panics, Hang, QueryQuits, Quits, Tick, vars, seenVars
    <3> QED
      BY <2>1, <3>2, <3>3
  <2> QED
    BY <2>2, <2>3
<1>8. log' = {<<q, Answer(q)>> : q \in LeftOnes}'
  BY <1>3, <1>4, <1>6, ObservedOnes
<1> QED
  BY <1>5, <1>6, <1>7, <1>8 DEF ObservedAsAnswered, LeftOnes, LeftWith, InsideOnes

----------------------------------------------------------------------------
(* The invariant, and what follows from it.                                 *)

(* Every step keeps ObservedAsAnswered.                                     *)
LEMMA ObservedStep ==
  TypeOK /\ BehindLimiter /\ PartsInv /\ ObservedAsAnswered /\ [Next]_vars => ObservedAsAnswered'
BY LeaveObserved, OthersObserved

(* Every step keeps the types; the gauge is a number as it counts a set.    *)
LEMMA TypeStep ==
  PipelineInv /\ PartsInv /\ ObservedAsAnswered' /\ [Next]_vars => TypeOK'
<1> SUFFICES ASSUME PipelineInv, PartsInv, ObservedAsAnswered', [Next]_vars PROVE TypeOK'
  OBVIOUS
<1> USE DEF PipelineInv
<1>1. route' \in [Requests -> Routes]
  BY RoutesFixed DEF TypeOK
<1>2. stage' \in [Requests -> Stages] /\ wrote' \in [Requests -> Answers]
  <2>1. \A l \in Stages, r \in Requests : [stage EXCEPT ![r] = l] \in [Requests -> Stages]
    BY DEF TypeOK
  <2>2. \A a \in Answers, r \in Requests : [wrote EXCEPT ![r] = a] \in [Requests -> Answers]
    BY DEF TypeOK
  <2>3. {"ok", "notfound", "limited", "internal", "redirected"} \subseteq Answers
    BY DEF Answers, I!Kinds
  <2>4. CASE UNCHANGED <<stage, wrote>>
    BY <2>4 DEF TypeOK
  <2>5. CASE \E r \in Requests : Enter(r) \/ ToQuery(r) \/ Leave(r)
    BY <2>1, <2>5 DEF Enter, ToQuery, Leave, Stage, Stages, TypeOK, queryVars
  <2>6. CASE \E r \in Requests : Redirect(r) \/ AnswerDirectly(r) \/ Refused(r) \/ Query(r)
                                    \/ QueryFails(r) \/ QueryPanics(r)
    BY <2>1, <2>2, <2>3, <2>6 DEF Redirect, AnswerDirectly, Refused, Query, QueryFails,
       QueryPanics, QueryAnswers, ErrorAnswer, Stage, Writes, Stages
  <2> QED
    BY <2>4, <2>5, <2>6 DEF Next, Serve, Redirect, Receives, Abandons, RateLimits, ToMutation,
       Acquire, Mutates, Stores, Returns, Fails, Panics, Hang, QueryQuits, Quits, Tick, vars,
       queryVars
<1>3. target' \in [Requests -> Requests \union {NoTodo, NoUuid}]
  <2>1. Told \subseteq Requests
    BY ToldWereStored DEF PartsInv, IP!ReplayInv, IP!TypeInv, IP!TypeOK
  <2>2. CASE UNCHANGED target
    BY <2>2 DEF TypeOK
  <2>3. CASE \E r \in Requests : Enter(r)
    BY <2>1, <2>3 DEF Enter, TypeOK
  <2> QED
    BY <2>2, <2>3 DEF Next, Serve, Redirect, Receives, Abandons, AnswerDirectly, RateLimits,
       Refused, ToMutation, ToQuery, Acquire, Query, QueryFails, QueryPanics, QueryAnswers,
       Mutates, Stores, Returns, Fails, Panics, Leave, Hang, QueryQuits, Quits, Tick, vars,
       queryVars
<1>4. panicked' \subseteq Requests /\ quit' \subseteq Requests
  BY DEF TypeOK, Next, Serve, Redirect, Receives, Abandons, Enter, AnswerDirectly, RateLimits,
     Refused, ToMutation, ToQuery, Acquire, Query, QueryFails, QueryPanics, QueryAnswers,
     Mutates, Stores, Returns, Fails, Panics, Leave, Hang, QueryQuits, Quits, Tick, vars,
     queryVars
<1>5. /\ held' \in [Requests -> SUBSET Connections]
      /\ running' \subseteq Requests /\ hung' \subseteq Requests
  <2>1. CASE UNCHANGED <<held, running, hung>>
    BY <2>1 DEF TypeOK
  <2>2. CASE \E r \in Requests : Acquire(r)
    BY <2>2 DEF Acquire, TypeOK
  <2>3. CASE \E r \in Requests : Releases(r)
    BY <2>3 DEF Releases, TypeOK
  <2>4. CASE \E r \in Requests : Hang(r) \/ Abandons(r)
    BY <2>4 DEF Hang, Abandons, TypeOK
  <2> QED
    BY <2>1, <2>2, <2>3, <2>4 DEF Next, Serve, Redirect, Receives, Abandons, Enter,
       AnswerDirectly, RateLimits, Refused, ToMutation, ToQuery, Query, QueryFails, QueryPanics,
       QueryAnswers, Mutates, Stores, Returns, Fails, Panics, Leave, QueryQuits, Quits, Tick,
       vars, poolVars
<1>6. inFlight' \in Nat
  <2>1. IsFiniteSet({q \in Requests : stage'[q] \notin {"outside", "left"} /\ ~ Skipped(q)'})
    BY FiniteRequests, FS_Subset
  <2> QED
    BY <2>1, FS_CardinalityType DEF ObservedAsAnswered
<1>7. total' \in [Answers -> Nat] /\ log' \subseteq Requests \X Answers
  <2>1. CASE UNCHANGED <<total, log>>
    BY <2>1 DEF TypeOK
  <2>2. CASE \E r \in Requests : Leave(r)
    BY <2>2, SeenAsAnswered, AnswerType DEF Leave, TypeOK
  <2> QED
    BY <2>1, <2>2 DEF Next, Serve, Redirect, Receives, Abandons, Enter, AnswerDirectly,
       RateLimits, Refused, ToMutation, ToQuery, Acquire, Query, QueryFails, QueryPanics,
       QueryAnswers, Mutates, Stores, Returns, Fails, Panics, Hang, QueryQuits, Quits, Tick,
       vars, seenVars
<1> QED
  BY <1>1, <1>2, <1>3, <1>4, <1>5, <1>6, <1>7 DEF TypeOK

(* The invariant holds at the start.                                        *)
LEMMA InvInit == Init => PipelineInv
<1> SUFFICES ASSUME Init PROVE PipelineInv
  OBVIOUS
<1>1. ipc = [r \in Requests |-> "idle"]
  BY DEF Init, I!Init
<1>2. TypeOK
  BY DEF Init, TypeOK, Stages, Answers, I!Kinds
<1>3. BehindLimiter /\ TargetsStored
  BY <1>1 DEF Init, BehindLimiter, TargetsStored
<1>4. LeftOnes = {} /\ InsideOnes = {} /\ \A a \in Answers : LeftWith(a) = {}
  BY DEF Init, LeftOnes, InsideOnes, LeftWith
<1>5. ObservedAsAnswered
  BY <1>4, ObservedOnes, FS_EmptySet DEF Init
<1> QED
  BY <1>2, <1>3, <1>5 DEF PipelineInv

(* The inductive invariant holds in every reachable state of the chain, for *)
(* any number of requests, of connections and of hours, any limit and any   *)
(* of the faults.                                                           *)
THEOREM PipelineInvariant == Spec => []PipelineInv
<1>1. PipelineInv /\ PartsInv /\ [Next]_vars => PipelineInv'
  BY TypeStep, BehindStep, TargetsStep, ObservedStep DEF PipelineInv
<1> QED
  BY <1>1, InvInit, PartsInvariant, PTL DEF Spec

(* Every variable of the chain keeps its type.                              *)
THEOREM Typing == Spec => []TypeOK
<1>1. PipelineInv => TypeOK
  BY DEF PipelineInv
<1> QED
  BY <1>1, PipelineInvariant, PTL

(* The limit bounds what the requests of an hour do, not only how many pass *)
(* the limiter.                                                             *)
THEOREM LimitBoundsEffects == Spec => []EffectsWithinLimit
<1>1. PipelineInv /\ PartsInv => EffectsWithinLimit
  BY LimitStep DEF PipelineInv
<1> QED
  BY <1>1, PipelineInvariant, PartsInvariant, PTL

(* Log, counter and gauge tell what happened, panics and errors included.   *)
THEOREM NothingUnseen == Spec => []ObservedAsAnswered
<1>1. PipelineInv => ObservedAsAnswered
  BY DEF PipelineInv
<1> QED
  BY <1>1, PipelineInvariant, PTL

(* A todo whose id a client got is found by it, replays included.           *)
THEOREM NoFalseNotFound == Spec => []ToldIsFound
<1>1. PipelineInv => ToldIsFound
  BY DEF PipelineInv, TargetsStored, ToldIsFound, Answer
<1> QED
  BY <1>1, PipelineInvariant, PTL

----------------------------------------------------------------------------
(* How far a request is from having left.                                   *)

Ahead == [outside |-> 4, inside |-> 3, query |-> 2, answered |-> 1, left |-> 0]

Waiting(r) == IF r \in running THEN 0 ELSE 1

(* Steps that a request has left at most: what it has left in the limiter,  *)
(* in the middleware and around them, each with a connection to wait for.   *)
Left(r) == 2 * (LP!Left(r) + IP!Left[ipc[r]] + Ahead[stage[r]]) + Waiting(r)

GoingForward ==
  \A r \in Requests : /\ Left(r) \in Nat /\ Left(r)' <= Left(r)
                      /\ Serve(r) => Left(r)' < Left(r)

(* What is known of the parts when a step is taken.                         *)
ForwardInv == TypeOK /\ PartsInv /\ LP!TriesBounded

(* The terms of Left are natural numbers.                                   *)
LEMMA Terms ==
  ASSUME ForwardInv, NEW r \in Requests
  PROVE  /\ LP!Left(r) \in Nat /\ IP!Left[ipc[r]] \in Nat /\ Ahead[stage[r]] \in Nat
         /\ Waiting(r) \in {0, 1}
<1>1. LP!TypeOK /\ IP!TypeOK
  BY DEF ForwardInv, PartsInv, LP!LimitInv, IP!ReplayInv, IP!TypeInv
<1>2. LP!Left(r) \in Nat
  BY <1>1, PartAssumptions, LP!LeftType DEF ForwardInv
<1>3. IP!Left[ipc[r]] \in Nat
  BY <1>1, PartAssumptions, IP!LeftType
<1>4. Ahead[stage[r]] \in Nat
  BY DEF ForwardInv, TypeOK, Stages, Ahead
<1> QED
  BY <1>2, <1>3, <1>4 DEF Waiting

(* The parts go forward.                                                    *)
LEMMA PartsForward ==
  ASSUME ForwardInv, ForwardInv', [Next]_vars
  PROVE  LP!GoingForward /\ IP!GoingForward
<1>1. LP!GoingForward
  <2>1. LP!TypeOK /\ LP!TypeOK' /\ LP!TriesBounded /\ LP!TriesBounded'
    BY DEF ForwardInv, PartsInv, LP!LimitInv
  <2> QED
    BY <2>1, PartAssumptions, LimiterStep, LP!ForwardStep
<1>2. IP!GoingForward
  <2>1. IP!TypeOK
    BY DEF ForwardInv, PartsInv, IP!ReplayInv, IP!TypeInv
  <2> QED
    BY <2>1, PartAssumptions, IdemStep, IP!ForwardStep
<1> QED
  BY <1>1, <1>2

(* The steps of a request that are not the server's, or that it need not    *)
(* take.                                                                    *)
ByClient(r) ==
  Redirect(r) \/ Receives(r) \/ Hang(r) \/ Abandons(r) \/ QueryQuits(r) \/ Quits(r)

(* A step for one request leaves the others where they are in the chain,    *)
(* with their connections.                                                  *)
LEMMA OthersStay ==
  ASSUME TypeOK, [Next]_vars, NEW r \in Requests,
         ~ (Enter(r) \/ Serve(r) \/ ByClient(r))
  PROVE  stage'[r] = stage[r] /\ Waiting(r)' = Waiting(r)
<1>1. ASSUME NEW q \in Requests, q # r,
             Enter(q) \/ Serve(q) \/ ByClient(q)
      PROVE  stage'[r] = stage[r] /\ (r \in running' <=> r \in running)
  BY <1>1 DEF ByClient, Redirect, Receives, Abandons, TypeOK, Serve, Enter, AnswerDirectly,
     RateLimits, Refused, ToMutation, ToQuery, Acquire, Query, QueryFails, QueryPanics,
     QueryAnswers, Mutates, Stores, Returns, Fails, Panics, Leave, Hang, QueryQuits, Quits,
     Releases, Stage, poolVars
<1>2. ASSUME Tick \/ UNCHANGED vars
      PROVE  stage'[r] = stage[r] /\ (r \in running' <=> r \in running)
  BY <1>2 DEF Tick, vars, poolVars
<1> QED
  BY <1>1, <1>2 DEF Next, ByClient, Waiting

(* A step of the server for a request takes it forward in the chain, in one *)
(* of the parts, or to a connection.                                        *)
LEMMA SomethingMoves ==
  ASSUME ForwardInv, ForwardInv', [Next]_vars, NEW r \in Requests, Serve(r)
  PROVE  \/ Ahead[stage'[r]] < Ahead[stage[r]]
         \/ /\ stage'[r] = stage[r]
            /\ \/ LP!Left(r)' < LP!Left(r)
               \/ IP!Left[ipc'[r]] < IP!Left[ipc[r]]
               \/ Waiting(r)' < Waiting(r)
<1> USE DEF ForwardInv
<1>1. CASE AnswerDirectly(r) \/ Refused(r) \/ ToQuery(r) \/ Leave(r)
             \/ Query(r) \/ QueryFails(r) \/ QueryPanics(r)
  BY <1>1 DEF TypeOK, Stage, Ahead, AnswerDirectly, Refused, ToQuery, Leave, Query, QueryFails,
     QueryPanics, QueryAnswers
<1>2. CASE RateLimits(r)
  <2>1. LP!Serve(r) /\ stage' = stage
    BY <1>2, LimiterServes DEF RateLimits
  <2> QED
    BY <2>1, PartsForward DEF LP!GoingForward
<1>3. CASE Acquire(r)
  BY <1>3 DEF Acquire, Waits, Waiting
<1>4. CASE ToMutation(r)
  <2>1. IP!Arrive(r) /\ stage' = stage
    BY <1>4, IdemArrives DEF ToMutation
  <2>2. IP!TypeOK
    BY DEF PartsInv, IP!ReplayInv, IP!TypeInv
  <2> QED
    BY <2>1, <2>2, PartAssumptions, IP!AttemptMoves
<1>5. CASE Mutates(r) \/ Stores(r) \/ Returns(r) \/ Fails(r) \/ Panics(r)
  <2>1. stage' = stage
    BY <1>5 DEF Mutates, Stores, Returns, Fails, Panics
  <2>2. IP!Serve(r)
    <3>1. \/ I!Replay(r) \/ I!Refuse(r) \/ I!Miss(r) \/ I!LookupFails(r)
          \/ I!Reject(r) \/ I!Execute(r) \/ I!ExecuteFails(r)
          \/ I!Acknowledge(r) \/ I!AcknowledgeLost(r) \/ I!Panic(r)
          \/ I!Save(r) \/ I!SaveFails(r) \/ I!SaveNull(r) \/ I!Finish(r)
      BY <1>5 DEF Mutates, Stores, Returns, Fails, Panics
    <3> QED
      BY <3>1, IdemLooksUp, IdemHandles, IdemEnds DEF IP!Serve
  <2> QED
    BY <2>1, <2>2, PartsForward DEF IP!GoingForward
<1> QED
  BY <1>1, <1>2, <1>3, <1>4, <1>5 DEF Serve

(* The other steps of a request take it nowhere, or in.                     *)
LEMMA NothingBack ==
  ASSUME TypeOK, NEW r \in Requests, Enter(r) \/ ByClient(r)
  PROVE  /\ stage'[r] = stage[r] \/ Ahead[stage'[r]] < Ahead[stage[r]]
         /\ Waiting(r)' = Waiting(r)
BY DEF TypeOK, Stage, Ahead, Waiting, Enter, Redirect, Receives, Hang, Abandons,
       QueryQuits, Quits, ByClient, Writes, poolVars

(* Whoever goes forward may have a connection to wait for again.            *)
LEMMA Sums ==
  \A a, b, c, d, e, f \in Int, w, v \in {0, 1} :
    d <= a /\ e <= b =>
      /\ f < c \/ (f = c /\ (v <= w \/ d < a \/ e < b)) =>
           2 * (d + e + f) + v <= 2 * (a + b + c) + w
      /\ f < c \/ (f = c /\ (v < w \/ d < a \/ e < b)) =>
           2 * (d + e + f) + v < 2 * (a + b + c) + w
OBVIOUS

(* One step, and what it does to the measure of every request.              *)
LEMMA ForwardStep ==
  ASSUME ForwardInv, ForwardInv', [Next]_vars
  PROVE  GoingForward
<1> SUFFICES ASSUME NEW r \in Requests
             PROVE  /\ Left(r) \in Nat /\ Left(r)' <= Left(r)
                    /\ Serve(r) => Left(r)' < Left(r)
  BY DEF GoingForward
<1> DEFINE a == LP!Left(r)    b == IP!Left[ipc[r]]    c == Ahead[stage[r]]    w == Waiting(r)
<1>1. a \in Nat /\ b \in Nat /\ c \in Nat /\ w \in {0, 1}
  BY Terms
<1>2. a' \in Int /\ b' \in Int /\ c' \in Int /\ w' \in {0, 1}
  <2>1. LP!TypeOK' /\ IP!TypeOK'
    BY DEF ForwardInv, PartsInv, LP!LimitInv, IP!ReplayInv, IP!TypeInv
  <2>2. tries'[r] \in Nat /\ Retries \in Nat
    BY <2>1, PartAssumptions DEF LP!TypeOK, LP!RateLimitAssumption
  <2>3. a' \in Int
    BY <2>2 DEF LP!Left
  <2>4. b' \in Int
    BY <2>1 DEF IP!TypeOK, IP!Labels, IP!Left
  <2>5. c' \in Int
    BY DEF ForwardInv, TypeOK, Stages, Ahead
  <2> QED
    BY <2>3, <2>4, <2>5 DEF Waiting
<1>3. a' <= a /\ b' <= b
  BY PartsForward DEF LP!GoingForward, IP!GoingForward
<1>4. Left(r) = 2 * (a + b + c) + w /\ Left(r)' = 2 * (a' + b' + c') + w'
  BY DEF Left
<1>5. c' < c \/ (c' = c /\ (w' <= w \/ a' < a \/ b' < b))
  <2>1. CASE Serve(r)
    BY <1>1, <1>2, <2>1, SomethingMoves
  <2>2. CASE Enter(r) \/ ByClient(r)
    BY <1>1, <2>2, NothingBack DEF ForwardInv
  <2>3. CASE ~ (Enter(r) \/ Serve(r) \/ ByClient(r))
    BY <1>1, <2>3, OthersStay DEF ForwardInv
  <2> QED
    BY <2>1, <2>2, <2>3
<1>6. Serve(r) => c' < c \/ (c' = c /\ (w' < w \/ a' < a \/ b' < b))
  BY SomethingMoves
<1>7. 2 * (a' + b' + c') + w' <= 2 * (a + b + c) + w
  BY <1>1, <1>2, <1>3, <1>5, Sums
<1>8. Serve(r) => 2 * (a' + b' + c') + w' < 2 * (a + b + c) + w
  BY <1>1, <1>2, <1>3, <1>6, Sums
<1>9. 2 * (a + b + c) + w \in Nat
  BY <1>1
<1> QED
  BY <1>4, <1>7, <1>8, <1>9

(* What EndsUnlessStuck needs besides fairness: no step in the chain takes  *)
(* any request back, and each step of the server for one takes it forward;  *)
(* none is wasted on waiting, on a retry without end, or on going through a *)
(* middleware twice.                                                        *)
THEOREM ChainGoesForward == Spec => [][GoingForward]_vars
<1>1. ForwardInv /\ ForwardInv' /\ [Next]_vars => [GoingForward]_vars
  BY ForwardStep
<1>2. Spec => []LP!TriesBounded
  BY PartAssumptions, ImplementsLimiter, LP!TriesInvariant, PTL
<1>3. TypeOK /\ PartsInv /\ LP!TriesBounded => ForwardInv
  BY DEF ForwardInv
<1> QED
  BY <1>1, <1>2, <1>3, Typing, PartsInvariant, PTL DEF Spec
====
