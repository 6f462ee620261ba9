---- MODULE RateLimitProofs ----
(***************************************************************************)
(* The limit, proved for every set of requests and addresses, every Limit, *)
(* every length of the hour, every number of retries and every set of      *)
(* faults.                                                                 *)
(***************************************************************************)
EXTENDS RateLimit, FiniteSetTheorems, FunctionTheorems, TLAPS

(* The hour of an instant has begun, is not over, and is a window.          *)
LEMMA HourFacts ==
  ASSUME NEW t \in 0..MaxTime
  PROVE  /\ HourOf(t) \in Windows
         /\ HourOf(t) * Hour <= t
         /\ t < EndOfHour(t)
         /\ EndOfHour(t) \in Nat
BY RateLimitAssumption DEF HourOf, Windows, EndOfHour

(* The end of a window is one hour after its beginning.                     *)
LEMMA WindowFacts ==
  ASSUME NEW k \in Counters
  PROVE  /\ k[2] \in Nat /\ WindowEnd(k) \in Nat
         /\ WindowEnd(k) = k[2] * Hour + Hour
BY RateLimitAssumption DEF Counters, Windows, WindowEnd

(* A request's key is one of the counters' keys.                            *)
LEMMA KeyFacts ==
  ASSUME TypeOK, NEW r \in Requests
  PROVE  KeyOf(r) \in Counters /\ KeyOf(r)[2] = hour[r]
BY DEF TypeOK, KeyOf, Counters

(* Initially every variable has its type.                                   *)
LEMMA TypeInit == Init => TypeOK
BY RateLimitAssumption DEF Init, TypeOK, Labels, Windows

(* Every step keeps every variable within its type.                         *)
LEMMA TypeStep == TypeOK /\ [Next]_vars => TypeOK'
<1> SUFFICES ASSUME TypeOK, [Next]_vars PROVE TypeOK'
  OBVIOUS
<1>1. ASSUME NEW r \in Requests, Arrive(r) PROVE TypeOK'
  <2>1. HourOf(now) \in Windows
    BY HourFacts DEF TypeOK
  <2> QED
    BY <1>1, <2>1 DEF Arrive, Goto, TypeOK, Labels
<1>2. ASSUME NEW r \in Requests, Incr(r) PROVE TypeOK'
  <2>1. KeyOf(r) \in Counters
    BY KeyFacts
  <2>2. counter' \in [Counters -> Nat] /\ counter[KeyOf(r)] + 1 \in Nat
    BY <1>2, <2>1 DEF Incr, Increment, TypeOK
  <2>3. pc' \in [Requests -> Labels]
    BY <1>2 DEF Incr, AfterIncr, Goto, TypeOK, Labels
  <2>4. now \in Nat
    BY RateLimitAssumption DEF TypeOK
  <2> QED
    BY <1>2, <2>2, <2>3, <2>4 DEF Incr, TypeOK
<1>3. ASSUME NEW r \in Requests, RetryOrOpen(r)
      PROVE  pc' \in [Requests -> Labels] /\ tries' \in [Requests -> Nat]
  BY <1>3 DEF RetryOrOpen, Goto, TypeOK, Labels
<1>4. ASSUME NEW r \in Requests, IncrReplyLost(r) PROVE TypeOK'
  <2>1. KeyOf(r) \in Counters
    BY KeyFacts
  <2>2. counter' \in [Counters -> Nat] /\ lost' \in [Counters -> Nat] /\ leaked' \subseteq Counters
    BY <1>4, <2>1 DEF IncrReplyLost, Increment, TypeOK
  <2> QED
    BY <1>3, <1>4, <2>2 DEF IncrReplyLost, TypeOK
<1>5. ASSUME NEW r \in Requests, IncrFails(r) PROVE TypeOK'
  BY <1>3, <1>5 DEF IncrFails, TypeOK
<1>6. ASSUME NEW r \in Requests, Expire(r) PROVE TypeOK'
  <2>1. TTL(now) \in Nat
    BY RateLimitAssumption DEF TypeOK, TTL
  <2> QED
    BY <1>6, <2>1, KeyFacts DEF Expire, Goto, TypeOK, Labels
<1>7. ASSUME NEW r \in Requests, ExpireFails(r) PROVE TypeOK'
  BY <1>7, KeyFacts DEF ExpireFails, Goto, TypeOK, Labels
<1>8. ASSUME NEW r \in Requests, Decide(r) PROVE TypeOK'
  <2>1. EndOfHour(now) \in Nat
    BY HourFacts DEF TypeOK
  <2> QED
    BY <1>8, <2>1 DEF Decide, Goto, TypeOK, Labels
<1>9. CASE Crash
  BY <1>9, KeyFacts DEF Crash, TypeOK, Labels
<1>10. CASE Tick
  BY <1>10, RateLimitAssumption DEF Tick, TypeOK
<1>11. CASE UNCHANGED vars
  BY <1>11 DEF vars, TypeOK
<1> QED
  BY <1>1, <1>2, <1>4, <1>5, <1>6, <1>7, <1>8, <1>9, <1>10, <1>11 DEF Next, Serve, Ended

(* Every reachable state is well typed.                                     *)
THEOREM Typing == Spec => []TypeOK
BY TypeInit, TypeStep, PTL DEF Spec

----------------------------------------------------------------------------
(* What a step may change.                                                  *)

(* What a request has got from INCR, and its key, do not change any more.   *)
LEMMA TicketFixed ==
  ASSUME TypeOK, Progress, [Next]_vars, NEW r \in Requests, count[r] > 0
  PROVE  count'[r] = count[r] /\ counted'[r] = counted[r] /\ KeyOf(r)' = KeyOf(r)
<1>1. pc[r] # "idle" /\ pc[r] # "incr"
  BY DEF Progress, TypeOK
<1>2. ASSUME NEW q \in Requests, Arrive(q)
      PROVE  count'[r] = count[r] /\ counted'[r] = counted[r] /\ KeyOf(r)' = KeyOf(r)
  BY <1>1, <1>2 DEF Arrive, KeyOf, TypeOK
<1>3. ASSUME NEW q \in Requests, Incr(q)
      PROVE  count'[r] = count[r] /\ counted'[r] = counted[r] /\ KeyOf(r)' = KeyOf(r)
  BY <1>1, <1>3 DEF Incr, KeyOf, TypeOK
<1>4. CASE UNCHANGED <<bucket, hour, count, counted>>
  BY <1>4 DEF KeyOf
<1> QED
  BY <1>2, <1>3, <1>4 DEF Next, Serve, IncrReplyLost, IncrFails, Expire, ExpireFails, Decide,
     Crash, Tick, Ended, vars

(* Only Incr gives out a count.                                             *)
LEMMA NewTicket ==
  ASSUME TypeOK, [Next]_vars, NEW r \in Requests, count'[r] # count[r]
  PROVE  Incr(r)
<1>1. PICK q \in Requests : Incr(q)
  BY DEF Next, Serve, Arrive, IncrReplyLost, IncrFails, Expire, ExpireFails, Decide, Crash, Tick,
     Ended, vars
<1> QED
  BY <1>1 DEF Incr, TypeOK

(* How far a request is follows from the steps it has taken.                *)
LEMMA ProgressStep == TypeOK /\ Progress /\ [Next]_vars => Progress'
<1> SUFFICES ASSUME TypeOK, Progress, [Next]_vars, NEW r \in Requests
             PROVE  /\ pc'[r] \in {"expire", "decide", "admitted", "refused"} => count'[r] > 0
                    /\ pc'[r] = "incr" => count'[r] = 0
                    /\ count'[r] > 0 => counted'[r] <= now'
                    /\ pc'[r] = "admitted" => count'[r] <= Limit
                    /\ pc'[r] = "idle" => count'[r] = 0
                    /\ pc'[r] # "idle" => hour'[r] * Hour <= now'
  BY DEF Progress
<1>1. /\ pc[r] \in {"expire", "decide", "admitted", "refused"} => count[r] > 0
      /\ pc[r] = "incr" => count[r] = 0
      /\ count[r] > 0 => counted[r] <= now
      /\ pc[r] = "admitted" => count[r] <= Limit
      /\ pc[r] = "idle" => count[r] = 0
      /\ pc[r] # "idle" => hour[r] * Hour <= now
  BY DEF Progress
<1>2. ASSUME NEW q \in Requests, Arrive(q)
      PROVE  Progress'
  <2>1. HourOf(now) * Hour <= now
    BY HourFacts DEF TypeOK
  <2> QED
    BY <1>2, <2>1 DEF Arrive, Goto, Progress, TypeOK
<1>3. ASSUME NEW q \in Requests, Incr(q)
      PROVE  Progress'
  <2>1. counter[KeyOf(q)] + 1 > 0
    BY KeyFacts DEF TypeOK
  <2>2. pc'[q] \in {"expire", "decide"} /\ \A x \in Requests : x # q => pc'[x] = pc[x]
    BY <1>3 DEF Incr, AfterIncr, Goto, TypeOK
  <2>3. count'[q] > 0 /\ \A x \in Requests : x # q => count'[x] = count[x]
    BY <1>3, <2>1 DEF Incr, TypeOK
  <2>4. counted'[q] = now /\ \A x \in Requests : x # q => counted'[x] = counted[x]
    BY <1>3 DEF Incr, TypeOK
  <2>5. hour' = hour /\ now' = now /\ pc[q] = "incr" /\ now \in Int
    BY <1>3, RateLimitAssumption DEF Incr, TypeOK
  <2> QED
    BY <2>2, <2>3, <2>4, <2>5 DEF Progress
<1>4. ASSUME NEW q \in Requests, IncrReplyLost(q) \/ IncrFails(q)
      PROVE  Progress'
  BY <1>4 DEF IncrReplyLost, IncrFails, RetryOrOpen, Goto, Progress, TypeOK
<1>5. ASSUME NEW q \in Requests, Expire(q) \/ ExpireFails(q)
      PROVE  Progress'
  BY <1>5 DEF Expire, ExpireFails, Goto, Progress, TypeOK
<1>6. ASSUME NEW q \in Requests, Decide(q)
      PROVE  Progress'
  BY <1>6 DEF Decide, Within, Goto, Progress, TypeOK
<1>7. CASE Crash
  BY <1>1, <1>7 DEF Crash, TypeOK, InFlight
<1>8. CASE Tick
  <2>1. now \in Int /\ now' = now + 1
    BY <1>8 DEF Tick, TypeOK
  <2>2. counted[r] \in Int /\ hour[r] * Hour \in Int
    BY RateLimitAssumption DEF TypeOK, Windows
  <2>3. UNCHANGED <<pc, count, counted, hour>>
    BY <1>8 DEF Tick
  <2> QED
    BY <1>1, <2>1, <2>2, <2>3
<1>9. CASE UNCHANGED vars
  BY <1>1, <1>9 DEF vars
<1> QED
  BY <1>2, <1>3, <1>4, <1>5, <1>6, <1>7, <1>8, <1>9 DEF Next, Serve, Ended, Progress

(* A TTL is set no earlier than the key's hour began, so it ends no earlier *)
(* than the hour does.                                                      *)
LEMMA ExpiryStep ==
  TypeOK /\ Progress /\ ExpiryAfterWindow /\ [Next]_vars => ExpiryAfterWindow'
<1> SUFFICES ASSUME TypeOK, Progress, ExpiryAfterWindow, [Next]_vars,
                    NEW k \in Counters, expiry'[k] # 0
             PROVE  expiry'[k] >= WindowEnd(k)
  BY DEF ExpiryAfterWindow, WindowEnd
<1>1. CASE expiry'[k] = expiry[k]
  BY <1>1 DEF ExpiryAfterWindow
<1>2. ASSUME NEW r \in Requests, Expire(r), expiry'[k] # expiry[k]
      PROVE  expiry'[k] >= WindowEnd(k)
  <2>1. k = KeyOf(r) /\ expiry'[k] = now + Hour
    BY <1>2 DEF Expire, TTL, TypeOK
  <2>2. k[2] * Hour <= now
    BY <1>2, <2>1, KeyFacts DEF Expire, Progress
  <2>3. WindowEnd(k) = k[2] * Hour + Hour /\ k[2] * Hour \in Int /\ now \in Int /\ Hour \in Int
    BY WindowFacts, RateLimitAssumption DEF TypeOK
  <2> QED
    BY <2>1, <2>2, <2>3
<1>3. CASE Tick
  BY <1>1, <1>3 DEF Tick
<1> QED
  BY <1>1, <1>2, <1>3 DEF Next, Serve, Arrive, Incr, IncrReplyLost, IncrFails, ExpireFails, Decide,
     Crash, Ended, vars

(* Within its hour a counter only grows: INCR adds one, and no TTL is due.  *)
LEMMA CounterGrows ==
  ASSUME TypeOK, ExpiryAfterWindow, [Next]_vars, NEW k \in Counters, now' < WindowEnd(k)
  PROVE  counter'[k] >= counter[k]
<1>1. ASSUME NEW r \in Requests, Increment(KeyOf(r))
      PROVE  counter'[k] >= counter[k]
  BY <1>1 DEF Increment, TypeOK
<1>2. CASE Tick
  <2>1. ~ Due(k, now + 1)
    BY <1>2, WindowFacts, RateLimitAssumption DEF Tick, Due, ExpiryAfterWindow, TypeOK
  <2> QED
    BY <1>2, <2>1 DEF Tick, TypeOK
<1>3. CASE UNCHANGED counter
  BY <1>3 DEF TypeOK
<1> QED
  BY <1>1, <1>2, <1>3 DEF Next, Serve, Arrive, Incr, IncrReplyLost, IncrFails, Expire, ExpireFails,
     Decide, Crash, Ended, vars

(* An INCR answers no more than the counter then holds, and within the hour *)
(* the counter holds no less later.                                         *)
LEMMA CountsBoundedStep ==
  TypeOK /\ Progress /\ ExpiryAfterWindow /\ CountsBounded /\ [Next]_vars => CountsBounded'
<1> SUFFICES ASSUME TypeOK, Progress, ExpiryAfterWindow, CountsBounded, [Next]_vars,
                    NEW r \in Requests, count'[r] > 0, now' < WindowEnd(KeyOf(r)')
             PROVE  count'[r] <= counter'[KeyOf(r)']
  BY DEF CountsBounded, WindowEnd
<1> DEFINE k == KeyOf(r)
<1>1. k \in Counters
  BY KeyFacts
<1>2. CASE count[r] > 0
  <2>1. count'[r] = count[r] /\ KeyOf(r)' = k
    BY <1>2, TicketFixed
  <2>2. now <= now'
    BY DEF Next, Serve, Arrive, Incr, IncrReplyLost, IncrFails, Expire, ExpireFails, Decide,
       Crash, Tick, Ended, vars, TypeOK
  <2>3. now < WindowEnd(k)
    BY <1>1, <2>1, <2>2, WindowFacts, TypeStep DEF TypeOK
  <2>4. count[r] <= counter[k]
    BY <1>2, <2>3 DEF CountsBounded
  <2>5. counter'[k] >= counter[k]
    BY <1>1, <2>1, CounterGrows
  <2>6. counter'[k] \in Int /\ counter[k] \in Int /\ count[r] \in Int
    BY <1>1, TypeStep DEF TypeOK
  <2> QED
    BY <2>1, <2>4, <2>5, <2>6
<1>3. CASE ~ (count[r] > 0)
  <2>1. Incr(r)
    BY <1>3, NewTicket, TypeStep
  <2>2. count'[r] = counter[k] + 1 /\ KeyOf(r)' = k
    BY <2>1 DEF Incr, KeyOf, TypeOK
  <2>3. counter'[k] = counter[k] + 1
    BY <1>1, <2>1 DEF Incr, Increment, TypeOK
  <2> QED
    BY <1>1, <2>2, <2>3 DEF TypeOK
<1> QED
  BY <1>2, <1>3

(* A new count of an hour exceeds every earlier count of that hour.         *)
LEMMA NewCountIsNew ==
  ASSUME TypeOK, Progress, ExpiryAfterWindow, CountsBounded, [Next]_vars,
         NEW q \in Requests, NEW r \in Requests, q # r,
         ~ (count[r] > 0), InWindow(q)', InWindow(r)', KeyOf(q)' = KeyOf(r)'
  PROVE  count'[q] # count'[r]
<1> DEFINE k == KeyOf(r)
<1>1. k \in Counters
  BY KeyFacts
<1>2. Incr(r)
  BY NewTicket, TypeStep DEF InWindow
<1>3. /\ count'[r] = counter[k] + 1 /\ count'[q] = count[q] /\ count[q] > 0
      /\ counted'[r] = now /\ KeyOf(r)' = k /\ KeyOf(q) = k
  BY <1>2 DEF Incr, KeyOf, TypeOK, InWindow
<1>4. now < WindowEnd(k)
  BY <1>3 DEF InWindow, WindowEnd
<1>5. count[q] <= counter[k]
  BY <1>3, <1>4 DEF CountsBounded
<1> QED
  BY <1>1, <1>3, <1>5 DEF TypeOK

(* No step makes two counts of an hour equal.                               *)
LEMMA CountsDistinctStep ==
  TypeOK /\ Progress /\ ExpiryAfterWindow /\ CountsBounded /\ CountsDistinct /\ [Next]_vars
    => CountsDistinct'
<1> SUFFICES ASSUME TypeOK, Progress, ExpiryAfterWindow, CountsBounded, CountsDistinct,
                    [Next]_vars, NEW q \in Requests, NEW r \in Requests, q # r,
                    InWindow(q)', InWindow(r)', KeyOf(q)' = KeyOf(r)'
             PROVE  count'[q] # count'[r]
  BY DEF CountsDistinct
<1>1. CASE count[q] > 0 /\ count[r] > 0
  <2>1. /\ count'[q] = count[q] /\ counted'[q] = counted[q] /\ KeyOf(q)' = KeyOf(q)
        /\ count'[r] = count[r] /\ counted'[r] = counted[r] /\ KeyOf(r)' = KeyOf(r)
    BY <1>1, TicketFixed
  <2>2. InWindow(q) /\ InWindow(r)
    BY <2>1 DEF InWindow, WindowEnd
  <2> QED
    BY <2>1, <2>2 DEF CountsDistinct
<1>2. CASE ~ (count[r] > 0)
  BY <1>2, NewCountIsNew
<1>3. CASE ~ (count[q] > 0)
  BY <1>3, NewCountIsNew
<1> QED
  BY <1>1, <1>2, <1>3

----------------------------------------------------------------------------
(* The theorems.                                                            *)

(* The inductive invariant holds in every reachable state, with the clock   *)
(* turning the hour, replies lost and instances dying between any two steps *)
(* of Check.                                                                *)
THEOREM LimitInvariant == Spec => []LimitInv
<1>1. Init => LimitInv
  <2> SUFFICES ASSUME Init PROVE LimitInv
    OBVIOUS
  <2>1. TypeOK
    BY TypeInit
  <2> QED
    BY <2>1, KeyFacts DEF Init, LimitInv, Progress, ExpiryAfterWindow, CountsBounded,
       CountsDistinct, InWindow
<1>2. LimitInv /\ [Next]_vars => LimitInv'
  BY TypeStep, ProgressStep, ExpiryStep, CountsBoundedStep, CountsDistinctStep DEF LimitInv
<1> QED
  BY <1>1, <1>2, PTL DEF Spec

(* Requests with different counts between 1 and Limit are at most Limit.    *)
LEMMA LimitImpliesCap == LimitInv => CapPerWindow
<1> SUFFICES ASSUME LimitInv, NEW k \in Counters
             PROVE  Cardinality({r \in Requests : pc[r] = "admitted" /\ KeyOf(r) = k /\ InWindow(r)})
                      <= AtLeastZero(Limit)
  BY DEF CapPerWindow
<1> DEFINE S == {r \in Requests : pc[r] = "admitted" /\ KeyOf(r) = k /\ InWindow(r)}
           f == [r \in S |-> count[r]]
<1>1. \A r \in S : count[r] \in 1..Limit
  BY RateLimitAssumption DEF LimitInv, Progress, TypeOK
<1>2. \A q, r \in S : count[q] = count[r] => q = r
  BY DEF LimitInv, CountsDistinct
<1>3. f \in Injection(S, 1..Limit)
  BY <1>1, <1>2 DEF Injection, IsInjective
<1>4. /\ IsFiniteSet(1..Limit)
      /\ Cardinality(1..Limit) = IF 1 > Limit THEN 0 ELSE Limit - 1 + 1
  BY FS_Interval, RateLimitAssumption
<1>5. IsFiniteSet(S) /\ Cardinality(S) <= Cardinality(1..Limit)
  BY <1>3, <1>4, FS_Injection
<1>6. Cardinality(1..Limit) = AtLeastZero(Limit)
  BY <1>4, RateLimitAssumption DEF AtLeastZero
<1> HIDE DEF S
<1>7. Cardinality(S) <= AtLeastZero(Limit)
  BY <1>5, <1>6
<1> QED
  BY <1>7 DEF S

(* The limit: of the requests counted on an address within an hour, at most *)
(* Limit are let through, for a Limit of any sign.                          *)
THEOREM TheLimit == Spec => []CapPerWindow
BY LimitInvariant, LimitImpliesCap, PTL

(* Each hour has its own counter: no counter is deleted before its hour is  *)
(* over, however late its EXPIRE is sent.                                   *)
THEOREM NoEarlyReset == Spec => NoResetInWindow
<1>1. LimitInv /\ LimitInv' /\ [Next]_vars =>
        [\A k \in Counters : counter[k] > 0 /\ counter'[k] = 0 => now' >= WindowEnd(k)]_vars
  <2> SUFFICES ASSUME LimitInv, LimitInv', [Next]_vars, NEW k \in Counters,
                      counter[k] > 0, counter'[k] = 0
               PROVE  now' >= WindowEnd(k)
    OBVIOUS
  <2>1. ~ (now' < WindowEnd(k))
    BY CounterGrows DEF LimitInv, TypeOK
  <2> QED
    BY <2>1, WindowFacts DEF LimitInv, TypeOK
<1> QED
  BY <1>1, LimitInvariant, PTL DEF NoResetInWindow, Spec

(* Wherever a counter has no TTL, a request is about to set it or its       *)
(* EXPIRE is known to be lost: nothing else leaves a counter behind.        *)
LEMMA CountersExpireStep == TypeOK /\ CountersExpire /\ [Next]_vars => CountersExpire'
<1> SUFFICES ASSUME TypeOK, CountersExpire, [Next]_vars,
                    NEW k \in Counters, counter'[k] > 0, expiry'[k] = 0
             PROVE  k \in leaked' \/ \E r \in Requests : pc'[r] = "expire" /\ KeyOf(r)' = k
  BY DEF CountersExpire
<1>1. counter[k] > 0 /\ expiry[k] = 0 =>
        k \in leaked \/ \E r \in Requests : pc[r] = "expire" /\ KeyOf(r) = k
  BY DEF CountersExpire
<1>2. ASSUME NEW q \in Requests, Arrive(q)
      PROVE  CountersExpire'
  BY <1>2 DEF Arrive, Goto, CountersExpire, KeyOf, TypeOK
<1>3. ASSUME NEW q \in Requests, Incr(q)
      PROVE  CountersExpire'
  <2>1. \A x \in Requests : KeyOf(x)' = KeyOf(x)
    BY <1>3 DEF Incr, KeyOf
  <2>2. KeyOf(q) \in Counters
    BY KeyFacts
  <2>3. counter[KeyOf(q)] = 0 => pc'[q] = "expire"
    BY <1>3 DEF Incr, AfterIncr, Goto, TypeOK
  <2>4. \A j \in Counters : j # KeyOf(q) => counter'[j] = counter[j]
    BY <1>3, <2>2 DEF Incr, Increment, TypeOK
  <2>5. \A x \in Requests : pc[x] = "expire" => pc'[x] = "expire"
    BY <1>3 DEF Incr, Goto, TypeOK
  <2>6. expiry' = expiry /\ leaked' = leaked
    BY <1>3 DEF Incr
  <2> QED
    BY <2>1, <2>2, <2>3, <2>4, <2>5, <2>6 DEF CountersExpire, TypeOK
<1>4. ASSUME NEW q \in Requests, IncrReplyLost(q)
      PROVE  CountersExpire'
  BY <1>4, KeyFacts
  DEF IncrReplyLost, Increment, RetryOrOpen, Goto, CountersExpire, KeyOf, TypeOK
<1>5. ASSUME NEW q \in Requests, IncrFails(q)
      PROVE  CountersExpire'
  BY <1>5 DEF IncrFails, RetryOrOpen, Goto, CountersExpire, KeyOf, TypeOK
<1>6. ASSUME NEW q \in Requests, Expire(q)
      PROVE  CountersExpire'
  <2>1. TTL(now) > 0
    BY RateLimitAssumption DEF TTL, TypeOK
  <2> QED
    BY <1>6, <2>1, KeyFacts DEF Expire, Goto, CountersExpire, KeyOf, TypeOK
<1>7. ASSUME NEW q \in Requests, ExpireFails(q)
      PROVE  CountersExpire'
  BY <1>7, KeyFacts DEF ExpireFails, Goto, CountersExpire, KeyOf, TypeOK
<1>8. ASSUME NEW q \in Requests, Decide(q)
      PROVE  CountersExpire'
  BY <1>8 DEF Decide, Goto, CountersExpire, KeyOf, TypeOK
<1>9. CASE Crash
  BY <1>1, <1>9 DEF Crash, KeyOf, TypeOK
<1>10. CASE Tick
  BY <1>1, <1>10 DEF Tick, KeyOf, TypeOK
<1>11. CASE UNCHANGED vars
  BY <1>1, <1>11 DEF vars, KeyOf
<1> QED
  BY <1>2, <1>3, <1>4, <1>5, <1>6, <1>7, <1>8, <1>9, <1>10, <1>11
  DEF Next, Serve, Ended, CountersExpire

(* The three ways a counter without a TTL can come about are the only ones. *)
THEOREM TTLAccounted == Spec => []CountersExpire
<1>1. Init => CountersExpire
  BY DEF Init, CountersExpire
<1> QED
  BY <1>1, CountersExpireStep, Typing, PTL DEF Spec

(* A decision comes no earlier than the hour its request was counted on,    *)
(* and the hour of the decision ends no earlier than that one.              *)
LEMMA EndOfHourMonotone ==
  ASSUME NEW t \in 0..MaxTime, NEW h \in Windows, h * Hour <= t
  PROVE  (h + 1) * Hour <= EndOfHour(t)
<1> DEFINE g == HourOf(t)
<1>1. g \in Nat /\ t < (g + 1) * Hour /\ h \in Nat
  BY HourFacts DEF EndOfHour, Windows
<1>2. h < g + 1
  <2> SUFFICES ASSUME g + 1 <= h PROVE FALSE
    BY <1>1
  <2> HIDE DEF g
  <2>1. (g + 1) * Hour <= h * Hour
    BY <1>1, RateLimitAssumption
  <2> QED
    BY <1>1, <2>1, RateLimitAssumption
<1> HIDE DEF g
<1>3. (h + 1) * Hour <= (g + 1) * Hour
  BY <1>1, <1>2, RateLimitAssumption
<1> QED
  BY <1>3 DEF EndOfHour, g

(* What Check says of the reset is decided once, when the hour of the       *)
(* request's key has begun.                                                 *)
LEMMA ResetStep == TypeOK /\ Progress /\ ResetNotEarly /\ [Next]_vars => ResetNotEarly'
<1> SUFFICES ASSUME TypeOK, Progress, ResetNotEarly, [Next]_vars,
                    NEW r \in Requests, pc'[r] \in {"admitted", "refused"}
             PROVE  resetAt'[r] >= WindowEnd(KeyOf(r)')
  BY DEF ResetNotEarly, WindowEnd, KeyOf
<1>1. pc[r] \in {"admitted", "refused"} => resetAt[r] >= WindowEnd(KeyOf(r))
  BY DEF ResetNotEarly
<1>2. CASE Decide(r)
  <2>1. hour[r] \in Windows /\ hour[r] * Hour <= now /\ now \in 0..MaxTime
    BY <1>2 DEF Decide, Progress, TypeOK
  <2>2. (hour[r] + 1) * Hour <= EndOfHour(now)
    BY <2>1, EndOfHourMonotone
  <2>3. resetAt'[r] = EndOfHour(now) /\ WindowEnd(KeyOf(r)') = (hour[r] + 1) * Hour
    BY <1>2 DEF Decide, WindowEnd, KeyOf, TypeOK
  <2>4. EndOfHour(now) \in Int /\ (hour[r] + 1) * Hour \in Int
    BY <2>1, HourFacts, RateLimitAssumption DEF Windows
  <2> QED
    BY <2>2, <2>3, <2>4
<1>3. ASSUME NEW q \in Requests, Arrive(q) PROVE pc'[r] = pc[r] /\ hour'[r] = hour[r]
  BY <1>3 DEF Arrive, Goto, TypeOK
<1>4. ASSUME NEW q \in Requests, Decide(q), q # r
      PROVE  pc'[r] = pc[r] /\ hour'[r] = hour[r] /\ resetAt'[r] = resetAt[r]
  BY <1>4 DEF Decide, Goto, TypeOK
<1>5. CASE \/ \E q \in Requests : \/ Incr(q) \/ IncrReplyLost(q) \/ IncrFails(q)
                                  \/ Expire(q) \/ ExpireFails(q)
           \/ Crash \/ Tick \/ UNCHANGED vars
  <2>1. pc'[r] = pc[r] /\ UNCHANGED <<bucket, hour, resetAt>>
    BY <1>5 DEF Incr, IncrReplyLost, IncrFails, RetryOrOpen, AfterIncr, Expire, ExpireFails,
       Crash, Tick, vars, Goto, TypeOK
  <2> QED
    BY <1>1, <2>1 DEF KeyOf
<1>6. ASSUME NEW q \in Requests, Arrive(q) PROVE resetAt' = resetAt /\ bucket' = bucket
  BY <1>6 DEF Arrive
<1>7. ASSUME NEW q \in Requests, Decide(q) PROVE bucket' = bucket
  BY <1>7 DEF Decide
<1> QED
  BY <1>1, <1>2, <1>3, <1>4, <1>5, <1>6, <1>7 DEF Next, Serve, Ended, KeyOf

(* X-RateLimit-Reset is never before the end of the hour the request was    *)
(* counted on, although it is read from the clock a second time.            *)
THEOREM ResetIsHonest == Spec => []ResetNotEarly
<1>1. Init => ResetNotEarly
  BY DEF Init, ResetNotEarly
<1> QED
  BY <1>1, ResetStep, LimitInvariant, PTL DEF Spec, LimitInv

----------------------------------------------------------------------------
(* Refusals are earned.                                                     *)

(* The requests that were given a count of a key up to n.                   *)
UpTo(k, n) == {q \in Requests : KeyOf(q) = k /\ 0 < count[q] /\ count[q] <= n}

(* Within the hour, every count that a counter has passed was given to a    *)
(* request, or lost on its way to one.                                      *)
CounterExplained ==
  \A k \in Counters : now < WindowEnd(k) =>
    \A n \in Nat : n <= counter[k] => Cardinality(UpTo(k, n)) + lost[k] >= n

(* The counts before a request's own stay explained after the hour.         *)
TicketsExplained ==
  \A r \in Requests : InWindow(r) =>
    Cardinality(UpTo(KeyOf(r), count[r] - 1)) + lost[KeyOf(r)] >= count[r] - 1

(* Only a count over the limit is refused.                                  *)
RefusedOver ==
  \A r \in Requests : pc[r] = "refused" => count[r] > 0 /\ count[r] > Limit

RefusalInv == CounterExplained /\ TicketsExplained /\ RefusedOver

(* The requests that were given a count are finitely many.                  *)
LEMMA UpToFinite ==
  ASSUME NEW k, NEW n
  PROVE  IsFiniteSet(UpTo(k, n)) /\ Cardinality(UpTo(k, n)) \in Nat
<1>1. UpTo(k, n) \in SUBSET Requests
  BY DEF UpTo
<1>2. IsFiniteSet(UpTo(k, n))
  BY <1>1, FS_Subset, RateLimitAssumption
<1> QED
  BY <1>2, FS_CardinalityType

(* Counts that were given are never taken back, and losses are not undone.  *)
LEMMA UpToGrows ==
  ASSUME TypeOK, Progress, [Next]_vars, NEW k \in Counters, NEW n \in Nat
  PROVE  /\ UpTo(k, n) \subseteq UpTo(k, n)'
         /\ Cardinality(UpTo(k, n)') >= Cardinality(UpTo(k, n))
         /\ Cardinality(UpTo(k, n)) \in Nat /\ Cardinality(UpTo(k, n)') \in Nat
         /\ lost'[k] >= lost[k] /\ lost[k] \in Nat /\ lost'[k] \in Nat
<1>1. UpTo(k, n) \subseteq UpTo(k, n)'
  BY TicketFixed DEF UpTo
<1>2. IsFiniteSet(UpTo(k, n)) /\ IsFiniteSet(UpTo(k, n)')
  <2>1. UpTo(k, n) \in SUBSET Requests /\ UpTo(k, n)' \in SUBSET Requests
    BY DEF UpTo
  <2> QED
    BY <2>1, FS_Subset, RateLimitAssumption
<1>3. Cardinality(UpTo(k, n)') >= Cardinality(UpTo(k, n))
      /\ Cardinality(UpTo(k, n)) \in Nat /\ Cardinality(UpTo(k, n)') \in Nat
  <2>1. Cardinality(UpTo(k, n)) <= Cardinality(UpTo(k, n)')
    BY <1>1, <1>2, FS_Subset
  <2>2. Cardinality(UpTo(k, n)) \in Nat /\ Cardinality(UpTo(k, n)') \in Nat
    BY <1>2, FS_CardinalityType
  <2> QED
    BY <2>1, <2>2
<1>4. lost'[k] >= lost[k]
  <2>1. ASSUME NEW r \in Requests, IncrReplyLost(r) PROVE lost'[k] >= lost[k]
    BY <2>1 DEF IncrReplyLost, TypeOK
  <2>2. CASE lost' = lost
    BY <2>2 DEF TypeOK
  <2> QED
    BY <2>1, <2>2 DEF Next, Serve, Arrive, Incr, IncrFails, Expire, ExpireFails, Decide, Crash,
       Tick, Ended, vars
<1>5. lost[k] \in Nat /\ lost'[k] \in Nat
  BY TypeStep DEF TypeOK
<1> QED
  BY <1>1, <1>3, <1>4, <1>5

(* Within its hour a counter changes only by an INCR, heard of or not.      *)
LEMMA CounterChanges ==
  ASSUME TypeOK, ExpiryAfterWindow, [Next]_vars, NEW k \in Counters, now' < WindowEnd(k),
         counter'[k] # counter[k]
  PROVE  /\ counter'[k] = counter[k] + 1
         /\ \E r \in Requests : KeyOf(r) = k /\ (Incr(r) \/ IncrReplyLost(r))
<1>1. ~ Tick
  <2> SUFFICES ASSUME Tick PROVE FALSE
    OBVIOUS
  <2>1. ~ Due(k, now + 1)
    BY WindowFacts, RateLimitAssumption DEF Tick, Due, ExpiryAfterWindow, TypeOK
  <2> QED
    BY <2>1 DEF Tick, TypeOK
<1>2. PICK r \in Requests : Incr(r) \/ IncrReplyLost(r)
  BY <1>1 DEF Next, Serve, Arrive, IncrFails, Expire, ExpireFails, Decide, Crash, Ended, vars
<1>3. Increment(KeyOf(r))
  BY <1>2 DEF Incr, IncrReplyLost
<1> QED
  BY <1>2, <1>3 DEF Increment, TypeOK

(* The clock does not go back.                                              *)
LEMMA TimeGoesOn ==
  ASSUME TypeOK, [Next]_vars
  PROVE  now <= now' /\ now \in Int /\ now' \in Int
BY TypeStep DEF Next, Serve, Arrive, Incr, IncrReplyLost, IncrFails, Expire, ExpireFails, Decide,
   Crash, Tick, Ended, vars, TypeOK

(* An INCR gives the next count to its request, or loses it.                *)
LEMMA CounterExplainedStep ==
  TypeOK /\ Progress /\ ExpiryAfterWindow /\ CounterExplained /\ [Next]_vars => CounterExplained'
<1> SUFFICES ASSUME TypeOK, Progress, ExpiryAfterWindow, CounterExplained, [Next]_vars,
                    NEW k \in Counters, now' < WindowEnd(k), NEW n \in Nat, n <= counter'[k]
             PROVE  Cardinality(UpTo(k, n)') + lost'[k] >= n
  BY DEF CounterExplained, WindowEnd
<1>1. now < WindowEnd(k)
  BY TimeGoesOn, WindowFacts
<1>2. counter[k] \in Nat
  BY DEF TypeOK
<1>3. CASE n <= counter[k]
  <2>1. Cardinality(UpTo(k, n)) + lost[k] >= n
    BY <1>1, <1>3 DEF CounterExplained
  <2> QED
    BY <2>1, UpToGrows
<1>4. CASE ~ (n <= counter[k])
  <2> PICK c \in Nat : c = counter[k]
    BY <1>2
  <2>1. /\ n = c + 1
        /\ \E r \in Requests : KeyOf(r) = k /\ (Incr(r) \/ IncrReplyLost(r))
    BY <1>2, <1>4, CounterChanges
  <2>2. PICK r \in Requests : KeyOf(r) = k /\ (Incr(r) \/ IncrReplyLost(r))
    BY <2>1
  <2>3. Cardinality(UpTo(k, c)) + lost[k] >= c
    BY <1>1, <1>2 DEF CounterExplained
  <2>4. Cardinality(UpTo(k, c)) \in Nat /\ lost[k] \in Nat /\ IsFiniteSet(UpTo(k, c))
    BY UpToFinite DEF TypeOK
  <2>5. CASE Incr(r)
    <3>1. /\ count'[r] = c + 1 /\ count[r] = 0 /\ KeyOf(r)' = k
          /\ lost' = lost /\ UNCHANGED <<bucket, hour>>
      BY <2>2, <2>5 DEF Incr, KeyOf, Progress, TypeOK
    <3>2. r \notin UpTo(k, c)
      BY <3>1 DEF UpTo
    <3>3. UpTo(k, c) \union {r} \subseteq UpTo(k, n)'
      <4>1. UpTo(k, c) \subseteq UpTo(k, c)'
        BY <1>2, UpToGrows
      <4> QED
        BY <1>2, <2>1, <3>1, <4>1, TypeStep DEF UpTo, TypeOK
    <3>4. Cardinality(UpTo(k, c) \union {r}) = Cardinality(UpTo(k, c)) + 1
      BY <2>4, <3>2, FS_AddElement
    <3>5. Cardinality(UpTo(k, c) \union {r}) <= Cardinality(UpTo(k, n)')
      <4>1. IsFiniteSet(UpTo(k, n)')
        <5>1. UpTo(k, n)' \in SUBSET Requests
          BY DEF UpTo
        <5> QED
          BY <5>1, FS_Subset, RateLimitAssumption
      <4> QED
        BY <3>3, <4>1, FS_Subset
    <3>6. Cardinality(UpTo(k, n)') \in Nat
      BY UpToGrows
    <3> QED
      BY <1>2, <2>1, <2>3, <2>4, <3>1, <3>4, <3>5, <3>6
  <2>6. CASE IncrReplyLost(r)
    <3>1. lost'[k] = lost[k] + 1
      BY <2>2, <2>6 DEF IncrReplyLost, TypeOK
    <3>2. Cardinality(UpTo(k, c)) <= Cardinality(UpTo(k, n)')
      <4>1. UpTo(k, c) \subseteq UpTo(k, n)'
        <5>1. UpTo(k, c) \subseteq UpTo(k, c)'
          BY <1>2, UpToGrows
        <5>2. UpTo(k, c)' \subseteq UpTo(k, n)'
          BY <1>2, <2>1, TypeStep DEF UpTo, TypeOK
        <5> QED
          BY <5>1, <5>2
      <4>2. IsFiniteSet(UpTo(k, n)')
        <5>1. UpTo(k, n)' \in SUBSET Requests
          BY DEF UpTo
        <5> QED
          BY <5>1, FS_Subset, RateLimitAssumption
      <4> QED
        BY <4>1, <4>2, FS_Subset
    <3>3. Cardinality(UpTo(k, n)') \in Nat
      BY UpToGrows
    <3> QED
      BY <1>2, <2>1, <2>3, <2>4, <3>1, <3>2, <3>3
  <2> QED
    BY <2>2, <2>5, <2>6
<1> QED
  BY <1>3, <1>4

(* A request's count is explained when it is given, by what explains the    *)
(* counter, and the explanation stands.                                     *)
LEMMA TicketsExplainedStep ==
  TypeOK /\ Progress /\ CounterExplained /\ TicketsExplained /\ [Next]_vars => TicketsExplained'
<1> SUFFICES ASSUME TypeOK, Progress, CounterExplained, TicketsExplained, [Next]_vars,
                    NEW r \in Requests, InWindow(r)'
             PROVE  Cardinality(UpTo(KeyOf(r), count[r] - 1))' + lost'[KeyOf(r)'] >= count'[r] - 1
  BY DEF TicketsExplained
<1> PICK k \in Counters : k = KeyOf(r)
  BY KeyFacts
<1>1. counter[k] \in Nat /\ count[r] \in Nat
  BY DEF TypeOK
<1>2. \E n \in Nat : /\ Cardinality(UpTo(k, n)) + lost[k] >= n
                     /\ count'[r] - 1 = n /\ KeyOf(r)' = k
  <2>1. CASE count[r] > 0
    <3>1. count'[r] = count[r] /\ KeyOf(r)' = k /\ counted'[r] = counted[r]
      BY <2>1, TicketFixed
    <3>2. InWindow(r)
      BY <2>1, <3>1 DEF InWindow, WindowEnd
    <3>3. Cardinality(UpTo(k, count[r] - 1)) + lost[k] >= count[r] - 1
      BY <3>2 DEF TicketsExplained
    <3>4. count[r] - 1 \in Nat
      BY <1>1, <2>1
    <3> QED
      BY <3>1, <3>3, <3>4
  <2>2. CASE ~ (count[r] > 0)
    <3>1. Incr(r)
      BY <2>2, NewTicket, TypeStep DEF InWindow
    <3>2. count'[r] = counter[k] + 1 /\ KeyOf(r)' = k /\ counted'[r] = now
      BY <3>1 DEF Incr, KeyOf, TypeOK
    <3>3. now < WindowEnd(k)
      BY <3>2 DEF InWindow, WindowEnd
    <3>4. Cardinality(UpTo(k, counter[k])) + lost[k] >= counter[k]
      BY <1>1, <3>3 DEF CounterExplained
    <3> QED
      BY <1>1, <3>2, <3>4
  <2> QED
    BY <2>1, <2>2
<1>3. PICK n \in Nat : /\ Cardinality(UpTo(k, n)) + lost[k] >= n
                       /\ count'[r] - 1 = n /\ KeyOf(r)' = k
  BY <1>2
<1>4. Cardinality(UpTo(k, n)') + lost'[k] >= n
  BY <1>1, <1>3, UpToGrows
<1>5. UpTo(KeyOf(r), count[r] - 1)' = UpTo(k, n)'
  BY <1>3 DEF UpTo
<1> QED
  BY <1>3, <1>4, <1>5

(* Decide alone refuses.                                                    *)
LEMMA RefusedStep == TypeOK /\ Progress /\ RefusedOver /\ [Next]_vars => RefusedOver'
<1> SUFFICES ASSUME TypeOK, Progress, RefusedOver, [Next]_vars,
                    NEW r \in Requests, pc'[r] = "refused"
             PROVE  count'[r] > 0 /\ count'[r] > Limit
  BY DEF RefusedOver
<1>1. CASE pc[r] = "refused"
  BY <1>1, TicketFixed DEF RefusedOver
<1>2. CASE pc[r] # "refused"
  <2>1. Decide(r)
    <3>1. ASSUME NEW q \in Requests, Arrive(q) \/ Serve(q) PROVE Decide(r)
      BY <1>2, <3>1 DEF Serve, Arrive, Incr, IncrReplyLost, IncrFails, RetryOrOpen, AfterIncr,
         Expire, ExpireFails, Decide, Goto, TypeOK
    <3>2. ~ Crash /\ ~ Tick /\ ~ UNCHANGED vars
      BY <1>2 DEF Crash, Tick, vars, TypeOK
    <3> QED
      BY <3>1, <3>2 DEF Next, Ended
  <2> QED
    BY <2>1, RateLimitAssumption DEF Decide, Within, Progress, Goto, TypeOK
<1> QED
  BY <1>1, <1>2

(* Nobody is refused for nothing: before a request's count over the limit,  *)
(* Limit counts of that hour went to other requests or were lost.           *)
THEOREM RefusalsAreEarned == Spec => []RefusalEarned
<1>1. Init => RefusalInv
  <2> SUFFICES ASSUME Init PROVE RefusalInv
    OBVIOUS
  <2>1. CounterExplained
    BY UpToFinite DEF Init, CounterExplained
  <2> QED
    BY <2>1 DEF Init, RefusalInv, TicketsExplained, RefusedOver, InWindow
<1>2. RefusalInv /\ LimitInv /\ [Next]_vars => RefusalInv'
  BY CounterExplainedStep, TicketsExplainedStep, RefusedStep DEF RefusalInv, LimitInv
<1>3. RefusalInv /\ LimitInv => RefusalEarned
  <2> SUFFICES ASSUME RefusalInv, LimitInv, NEW r \in Requests, pc[r] = "refused", InWindow(r)
               PROVE  Cardinality({q \in Requests : KeyOf(q) = KeyOf(r) /\ 0 < count[q] /\ count[q] < count[r]})
                        + lost[KeyOf(r)] >= Limit
    BY DEF RefusalEarned
  <2> DEFINE before == {q \in Requests : KeyOf(q) = KeyOf(r) /\ 0 < count[q] /\ count[q] < count[r]}
  <2>1. before = UpTo(KeyOf(r), count[r] - 1)
    BY DEF UpTo, LimitInv, TypeOK
  <2>2. Cardinality(UpTo(KeyOf(r), count[r] - 1)) + lost[KeyOf(r)] >= count[r] - 1
    BY DEF RefusalInv, TicketsExplained
  <2>3. count[r] > Limit /\ count[r] \in Int /\ Limit \in Int
    BY RateLimitAssumption DEF RefusalInv, RefusedOver, LimitInv, TypeOK
  <2>4. lost[KeyOf(r)] \in Int /\ Cardinality(UpTo(KeyOf(r), count[r] - 1)) \in Int
    BY KeyFacts, UpToFinite DEF LimitInv, TypeOK
  <2> HIDE DEF before
  <2>5. Cardinality(before) + lost[KeyOf(r)] >= Limit
    BY <2>1, <2>2, <2>3, <2>4
  <2> QED
    BY <2>5 DEF before
<1> QED
  BY <1>1, <1>2, <1>3, LimitInvariant, PTL DEF Spec

----------------------------------------------------------------------------
(* Where the documented promises hold without exception.                    *)

(* A reply is lost only where replies can be lost.                          *)
LEMMA NothingLost ==
  ASSUME "lost" \notin Faults
  PROVE  Spec => [](\A k \in Counters : lost[k] = 0)
<1>1. Init => \A k \in Counters : lost[k] = 0
  BY DEF Init
<1>2. (\A k \in Counters : lost[k] = 0) /\ [Next]_vars => (\A k \in Counters : lost[k] = 0)'
  <2> SUFFICES ASSUME [Next]_vars PROVE UNCHANGED lost
    OBVIOUS
  <2> QED
    BY DEF Next, Serve, Arrive, Incr, IncrReplyLost, IncrFails, Expire, ExpireFails, Decide, Crash,
       Tick, Ended, vars
<1> QED
  BY <1>1, <1>2, PTL DEF Spec

(* Whoever is refused comes after Limit other requests of its address and   *)
(* hour, whether Redis fails, EXPIREs get lost or instances die: it takes   *)
(* an INCR that ran and was sent again to use up somebody's share.          *)
RefusedAboveLimit ==
  \A r \in Requests :
    pc[r] = "refused" /\ InWindow(r) =>
      Cardinality({q \in Requests : KeyOf(q) = KeyOf(r) /\ 0 < count[q] /\ count[q] < count[r]})
        >= Limit

THEOREM RefusedOnlyAboveLimit ==
  ASSUME "lost" \notin Faults
  PROVE  Spec => []RefusedAboveLimit
<1>1. TypeOK /\ RefusalEarned /\ (\A k \in Counters : lost[k] = 0) => RefusedAboveLimit
  <2> SUFFICES ASSUME TypeOK, RefusalEarned, \A k \in Counters : lost[k] = 0,
                      NEW r \in Requests, pc[r] = "refused", InWindow(r)
               PROVE  Cardinality({q \in Requests : KeyOf(q) = KeyOf(r) /\ 0 < count[q]
                                                      /\ count[q] < count[r]}) >= Limit
    BY DEF RefusedAboveLimit
  <2> DEFINE before == {q \in Requests : KeyOf(q) = KeyOf(r) /\ 0 < count[q] /\ count[q] < count[r]}
  <2>1. lost[KeyOf(r)] = 0
    BY KeyFacts
  <2>2. Cardinality(before) + lost[KeyOf(r)] >= Limit
    BY DEF RefusalEarned
  <2>3. Cardinality(before) \in Nat
    BY RateLimitAssumption, FS_Subset, FS_CardinalityType
  <2> HIDE DEF before
  <2>4. Cardinality(before) >= Limit
    BY <2>1, <2>2, <2>3, RateLimitAssumption
  <2> QED
    BY <2>4 DEF before
<1>2. Spec => [](\A k \in Counters : lost[k] = 0)
  BY NothingLost
<1> QED
  BY <1>1, <1>2, RefusalsAreEarned, Typing, PTL

(* A counter that has no TTL is about to get one.                           *)
ExpireNaturally ==
  \A k \in Counters :
    counter[k] > 0 /\ expiry[k] = 0 => \E r \in Requests : pc[r] = "expire" /\ KeyOf(r) = k

(* "old counters expire naturally" (ratelimit.go:7): they do if nothing     *)
(* fails.  Each of the faults by itself can leave one behind for ever.      *)
THEOREM CountersExpireUnlessFaults ==
  ASSUME Faults = {}
  PROVE  Spec => []ExpireNaturally
<1>1. Init => leaked = {}
  BY DEF Init
<1>2. leaked = {} /\ [Next]_vars => (leaked = {})'
  BY DEF Next, Serve, Arrive, Incr, IncrReplyLost, IncrFails, Expire, ExpireFails, Decide, Crash,
     Tick, Ended, vars
<1>3. leaked = {} /\ CountersExpire => ExpireNaturally
  BY DEF CountersExpire, ExpireNaturally
<1> QED
  BY <1>1, <1>2, <1>3, TTLAccounted, PTL DEF Spec

----------------------------------------------------------------------------
(* How far a request is from its decision.                                  *)

(* The client library sends INCR again at most Retries times.               *)
TriesBounded == \A r \in Requests : tries[r] <= Retries

(* Commands and decisions that are left for a request at most.              *)
Left(r) ==
  IF pc[r] \in {"idle", "incr"}
    THEN Retries - tries[r] + (IF pc[r] = "idle" THEN 4 ELSE 3)
    ELSE IF pc[r] = "expire" THEN 2 ELSE IF pc[r] = "decide" THEN 1 ELSE 0

LEMMA LeftType ==
  ASSUME TypeOK, TriesBounded, NEW r \in Requests
  PROVE  Left(r) \in Nat
BY RateLimitAssumption DEF TypeOK, TriesBounded, Left

(* The steps of one request: it goes forward, and the others stay.          *)
LEMMA RequestMoves ==
  ASSUME TypeOK, TriesBounded, NEW q \in Requests, Arrive(q) \/ Serve(q)
  PROVE  /\ \A r \in Requests : r # q => pc'[r] = pc[r] /\ tries'[r] = tries[r]
         /\ tries'[q] <= Retries
         /\ Left(q)' < Left(q)
<1>1. /\ \A r \in Requests : r # q => pc'[r] = pc[r] /\ tries'[r] = tries[r]
      /\ \/ pc[q] = "idle" /\ pc'[q] = "incr" /\ tries'[q] = tries[q]
         \/ pc[q] = "incr" /\ pc'[q] \in {"expire", "decide", "opened"} /\ tries'[q] = tries[q]
         \/ pc[q] = "incr" /\ pc'[q] = "incr" /\ tries[q] < Retries /\ tries'[q] = tries[q] + 1
         \/ pc[q] = "expire" /\ pc'[q] = "decide" /\ tries'[q] = tries[q]
         \/ pc[q] = "decide" /\ pc'[q] \in {"admitted", "refused"} /\ tries'[q] = tries[q]
  <2> USE DEF TypeOK, Goto
  <2>1. CASE Arrive(q)
    BY <2>1 DEF Arrive
  <2>2. CASE Incr(q)
    BY <2>2 DEF Incr, AfterIncr
  <2>3. CASE IncrReplyLost(q) \/ IncrFails(q)
    <3>1. pc[q] = "incr" /\ RetryOrOpen(q)
      BY <2>3 DEF IncrReplyLost, IncrFails
    <3>2. CASE tries[q] < Retries
      BY <3>1, <3>2 DEF RetryOrOpen
    <3>3. CASE ~ (tries[q] < Retries)
      BY <3>1, <3>3 DEF RetryOrOpen
    <3> QED
      BY <3>2, <3>3
  <2>4. CASE Expire(q)
    BY <2>4 DEF Expire
  <2>5. CASE ExpireFails(q)
    BY <2>5 DEF ExpireFails
  <2>6. CASE Decide(q)
    BY <2>6 DEF Decide
  <2> QED
    BY <2>1, <2>2, <2>3, <2>4, <2>5, <2>6 DEF Serve
<1>2. tries[q] \in Nat /\ tries[q] <= Retries /\ Retries \in Nat
  BY RateLimitAssumption DEF TypeOK, TriesBounded
<1>3. tries'[q] <= Retries
  BY <1>1, <1>2
<1>4. Left(q)' < Left(q)
  BY <1>1, <1>2 DEF Left
<1> QED
  BY <1>1, <1>3, <1>4

(* The other steps send nobody back.                                        *)
LEMMA OthersMove ==
  ASSUME TypeOK, TriesBounded, Crash \/ Tick \/ UNCHANGED vars, NEW r \in Requests
  PROVE  tries' = tries /\ Left(r)' <= Left(r)
<1>1. tries' = tries /\ (pc'[r] = pc[r] \/ pc'[r] = "gone")
  BY DEF TypeOK, Crash, Tick, vars
<1>2. tries[r] \in Nat /\ tries[r] <= Retries /\ Retries \in Nat
  BY RateLimitAssumption DEF TypeOK, TriesBounded
<1> QED
  BY <1>1, <1>2 DEF Left

LEMMA TriesInvariant == Spec => []TriesBounded
<1>1. Init => TriesBounded
  BY RateLimitAssumption DEF Init, TriesBounded
<1>2. TypeOK /\ TriesBounded /\ [Next]_vars => TriesBounded'
  <2> SUFFICES ASSUME TypeOK, TriesBounded, [Next]_vars, NEW r \in Requests
               PROVE  tries'[r] <= Retries
    BY DEF TriesBounded
  <2>1. tries[r] <= Retries
    BY DEF TriesBounded
  <2>2. ASSUME NEW q \in Requests, Arrive(q) \/ Serve(q) PROVE tries'[r] <= Retries
    BY RequestMoves, <2>1, <2>2
  <2>3. ASSUME Crash \/ Tick \/ UNCHANGED vars PROVE tries'[r] <= Retries
    BY OthersMove, <2>1, <2>3
  <2> QED
    BY <2>2, <2>3 DEF Next, Ended
<1> QED
  BY <1>1, <1>2, Typing, PTL DEF Spec

GoingForward ==
  \A r \in Requests : /\ Left(r) \in Nat /\ Left(r)' <= Left(r)
                      /\ Serve(r) => Left(r)' < Left(r)

LEMMA ForwardStep ==
  ASSUME TypeOK, TypeOK', TriesBounded, TriesBounded', [Next]_vars
  PROVE  GoingForward
<1> SUFFICES ASSUME NEW r \in Requests
             PROVE  /\ Left(r) \in Nat /\ Left(r)' <= Left(r)
                    /\ Serve(r) => Left(r)' < Left(r)
  BY DEF GoingForward
<1>1. Left(r) \in Nat /\ Left(r)' \in Nat
  <2>1. Left(r) \in Nat
    BY LeftType
  <2>2. Left(r)' \in Nat
    BY RateLimitAssumption DEF TypeOK, TriesBounded, Left
  <2> QED
    BY <2>1, <2>2
<1>2. Serve(r) => Left(r)' < Left(r)
  BY RequestMoves
<1>3. Left(r)' <= Left(r)
  <2>1. ASSUME NEW q \in Requests, Arrive(q) \/ Serve(q) PROVE Left(r)' <= Left(r)
    <3>1. CASE q = r
      <4>1. Left(r)' < Left(r)
        BY RequestMoves, <2>1, <3>1
      <4> QED
        BY <1>1, <4>1
    <3>2. CASE q # r
      <4>1. pc'[r] = pc[r] /\ tries'[r] = tries[r]
        BY RequestMoves, <2>1, <3>2
      <4>2. Left(r)' = Left(r)
        BY <4>1 DEF Left
      <4> QED
        BY <1>1, <4>2
    <3> QED
      BY <3>1, <3>2
  <2>2. CASE Crash \/ Tick \/ UNCHANGED vars
    BY OthersMove, <2>2
  <2> QED
    BY <2>1, <2>2 DEF Next, Ended
<1> QED
  BY <1>1, <1>2, <1>3

(* No request waits for another, no reply is waited for twice: each step of *)
(* the server takes a request forward, and nothing takes it back.  One that *)
(* has arrived is over, and has sent INCR at most Retries + 1 times, within *)
(* Retries + 3 steps of its own.                                            *)
THEOREM RequestsGoForward == Spec => [][GoingForward]_vars
<1>1. TypeOK /\ TypeOK' /\ TriesBounded /\ TriesBounded' /\ [Next]_vars => [GoingForward]_vars
  BY ForwardStep
<1> QED
  BY <1>1, TriesInvariant, Typing, PTL DEF Spec
====
