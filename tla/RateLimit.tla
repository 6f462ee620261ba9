---- MODULE RateLimit ----
(***************************************************************************)
(* The hourly fixed-window limiter of internal/shared/ratelimit over the   *)
(* counters it keeps in Redis.                                             *)
(*                                                                         *)
(* A request is served in the steps between which other requests, on this  *)
(* or another instance, get to Redis: read the hour, INCR, EXPIRE on the   *)
(* first count, decide.  The client library sends a command again when its *)
(* reply does not come, INCR included.                                     *)
(***************************************************************************)
EXTENDS Integers, FiniteSets

CONSTANTS
  Requests,  \* HTTP requests to the rate-limited group
  Buckets,   \* client addresses
  Limit,     \* RATELIMIT_PER_IP_HOURLY: any integer, zero and below included
  Hour,      \* length of a window, and the TTL given to a counter, in ticks
  MaxTime,   \* BOUND: the clock stops here
  Retries,   \* how often the Redis client sends a command again (MaxRetries)
  Faults     \* what may go wrong: "down", "lost", "crash"

ASSUME RateLimitAssumption ==
  /\ IsFiniteSet(Requests)
  /\ Limit \in Int
  /\ Hour \in Nat \ {0}
  /\ MaxTime \in Nat
  /\ Retries \in Nat
  /\ Faults \subseteq {"down", "lost", "crash"}

VARIABLES
  now,      \* the clock
  counter,  \* counter[k]: Redis's value of a key, 0 when it has none
  expiry,   \* expiry[k]: when the key is deleted, 0 when it has no TTL
  pc,       \* how far each request is through Check and Middleware
  bucket,   \* the client address of each request; fixed
  hour,     \* the window in which the request computed its key
  tries,    \* commands sent again for the request's INCR
  count,    \* what INCR answered, 0 before
  counted,  \* history: when that INCR ran in Redis
  resetAt,  \* X-RateLimit-Reset, 0 before
  lost,     \* history: lost[k] counts INCRs that ran and got no reply through
  leaked    \* history: keys whose EXPIRE never reached Redis

vars == <<now, counter, expiry, pc, bucket, hour, tries, count, counted, resetAt, lost, leaked>>

----------------------------------------------------------------------------
Windows == 0..MaxTime      \* more hours than the clock can reach

Counters == Buckets \X Windows

(* "ratelimit:{bucket}:{hour}"                                              *)
KeyOf(r) == <<bucket[r], hour[r]>>

HourOf(t) == t \div Hour

(* Truncate(time.Hour).Add(time.Hour): the end of the hour that t is in.    *)
EndOfHourMissing(t) == HourOf(t) * Hour      \* mutant: Add(time.Hour) left out

EndOfHour(t) == (HourOf(t) + 1) * Hour

WindowEnd(k) == (k[2] + 1) * Hour

InFlight(r) == pc[r] \in {"incr", "expire", "decide"}

Goto(r, label) == pc' = [pc EXCEPT ![r] = label]

Init ==
  /\ now = 0
  /\ counter = [k \in Counters |-> 0]
  /\ expiry = [k \in Counters |-> 0]
  /\ pc = [r \in Requests |-> "idle"]
  /\ bucket \in [Requests -> Buckets]
  /\ hour = [r \in Requests |-> 0]
  /\ tries = [r \in Requests |-> 0]
  /\ count = [r \in Requests |-> 0]
  /\ counted = [r \in Requests |-> 0]
  /\ resetAt = [r \in Requests |-> 0]
  /\ lost = [k \in Counters |-> 0]
  /\ leaked = {}

(* Check computes the key from the clock.                                   *)
Arrive(r) ==
  /\ pc[r] = "idle"
  /\ hour' = [hour EXCEPT ![r] = HourOf(now)]
  /\ Goto(r, "incr")
  /\ UNCHANGED <<now, counter, expiry, bucket, tries, count, counted, resetAt, lost, leaked>>

(* Redis runs the INCR.                                                     *)
Increment(k) == counter' = [counter EXCEPT ![k] = @ + 1]

(* After INCR's answer n: only the first count sets the TTL.                *)
AfterIncrNever(n) == "decide"        \* mutant: the EXPIRE is forgotten

AfterIncr(n) == IF n = 1 THEN "expire" ELSE "decide"

(* INCR runs and its reply arrives.                                         *)
Incr(r) ==
  /\ pc[r] = "incr"
  /\ Increment(KeyOf(r))
  /\ count' = [count EXCEPT ![r] = counter[KeyOf(r)] + 1]
  /\ counted' = [counted EXCEPT ![r] = now]
  /\ Goto(r, AfterIncr(counter[KeyOf(r)] + 1))
  /\ UNCHANGED <<now, expiry, bucket, hour, tries, resetAt, lost, leaked>>

(* The client library sends INCR again, or gives Check an error, on which   *)
(* Middleware fails open.                                                   *)
RetryOrOpen(r) ==
  IF tries[r] < Retries
    THEN tries' = [tries EXCEPT ![r] = @ + 1] /\ UNCHANGED pc
    ELSE Goto(r, "opened") /\ UNCHANGED tries

(* INCR runs and its reply is lost.  If that was the first count, nobody    *)
(* sees it, and nobody sets the TTL.                                        *)
IncrReplyLost(r) ==
  /\ "lost" \in Faults
  /\ pc[r] = "incr"
  /\ Increment(KeyOf(r))
  /\ lost' = [lost EXCEPT ![KeyOf(r)] = @ + 1]
  /\ leaked' = IF counter[KeyOf(r)] = 0 THEN leaked \union {KeyOf(r)} ELSE leaked
  /\ RetryOrOpen(r)
  /\ UNCHANGED <<now, expiry, bucket, hour, count, counted, resetAt>>

(* INCR does not get to Redis.                                              *)
IncrFails(r) ==
  /\ "down" \in Faults
  /\ pc[r] = "incr"
  /\ RetryOrOpen(r)
  /\ UNCHANGED <<now, counter, expiry, bucket, hour, count, counted, resetAt, lost, leaked>>

(* EXPIRE: the key lives for an hour from now.                              *)
TTLShort(t) == t + Hour - 1          \* mutant: the TTL is less than the window
TTLPast(t) == t - Hour               \* mutant: the sign of the duration

TTL(t) == t + Hour

Expire(r) ==
  /\ pc[r] = "expire"
  /\ expiry' = IF counter[KeyOf(r)] > 0 THEN [expiry EXCEPT ![KeyOf(r)] = TTL(now)] ELSE expiry
  /\ Goto(r, "decide")
  /\ UNCHANGED <<now, counter, bucket, hour, tries, count, counted, resetAt, lost, leaked>>

(* EXPIRE does not get to Redis; its error is not looked at.                *)
ExpireFails(r) ==
  /\ "down" \in Faults
  /\ pc[r] = "expire"
  /\ leaked' = leaked \union {KeyOf(r)}
  /\ Goto(r, "decide")
  /\ UNCHANGED <<now, counter, expiry, bucket, hour, tries, count, counted, resetAt, lost>>

(* Check reads the clock once more for ResetAt, and Middleware lets the     *)
(* request through or answers 429.                                          *)
WithinLoose(n) == n <= Limit + 1     \* mutant: off by one
WithinStrict(n) == n < Limit         \* mutant: off by one the other way

Within(n) == n <= Limit

Decide(r) ==
  /\ pc[r] = "decide"
  /\ resetAt' = [resetAt EXCEPT ![r] = EndOfHour(now)]
  /\ Goto(r, IF Within(count[r]) THEN "admitted" ELSE "refused")
  /\ UNCHANGED <<now, counter, expiry, bucket, hour, tries, count, counted, lost, leaked>>

(* An instance dies with the requests S that it was serving.                *)
Crash ==
  /\ "crash" \in Faults
  /\ \E S \in (SUBSET {r \in Requests : InFlight(r)}) \ {{}} :
       /\ pc' = [r \in Requests |-> IF r \in S THEN "gone" ELSE pc[r]]
       /\ leaked' = leaked \union {KeyOf(r) : r \in {q \in S : pc[q] = "expire"}}
  /\ UNCHANGED <<now, counter, expiry, bucket, hour, tries, count, counted, resetAt, lost>>

(* The clock moves on, and Redis deletes the keys whose time has come.      *)
Due(k, t) == expiry[k] # 0 /\ expiry[k] <= t

Tick ==
  /\ now < MaxTime
  /\ now' = now + 1
  /\ counter' = [k \in Counters |-> IF Due(k, now + 1) THEN 0 ELSE counter[k]]
  /\ expiry' = [k \in Counters |-> IF Due(k, now + 1) THEN 0 ELSE expiry[k]]
  /\ leaked' = leaked \ {k \in Counters : Due(k, now + 1)}
  /\ UNCHANGED <<pc, bucket, hour, tries, count, counted, resetAt, lost>>

(* Every request has been answered, let through, or lost with its instance. *)
Ended ==
  /\ \A r \in Requests : pc[r] \in {"admitted", "refused", "opened", "gone"}
  /\ UNCHANGED vars

(* What the server does for a request it has accepted.                      *)
Serve(r) ==
  \/ Incr(r) \/ IncrReplyLost(r) \/ IncrFails(r)
  \/ Expire(r) \/ ExpireFails(r) \/ Decide(r)

Next ==
  \/ \E r \in Requests : Arrive(r) \/ Serve(r)
  \/ Crash
  \/ Tick
  \/ Ended

Spec == Init /\ [][Next]_vars

----------------------------------------------------------------------------
(* Properties.                                                              *)

Labels == {"idle", "incr", "expire", "decide", "admitted", "refused", "opened", "gone"}

(* Every variable holds values of its type.                                 *)
TypeOK ==
  /\ now \in 0..MaxTime
  /\ counter \in [Counters -> Nat]
  /\ expiry \in [Counters -> Nat]
  /\ pc \in [Requests -> Labels]
  /\ bucket \in [Requests -> Buckets]
  /\ hour \in [Requests -> Windows]
  /\ tries \in [Requests -> Nat]
  /\ count \in [Requests -> Nat]
  /\ counted \in [Requests -> Nat]
  /\ resetAt \in [Requests -> Nat]
  /\ lost \in [Counters -> Nat]
  /\ leaked \subseteq Counters

(* The request was counted on its key, before the key's hour was over.      *)
InWindow(r) == count[r] > 0 /\ counted[r] < WindowEnd(KeyOf(r))

AtLeastZero(n) == IF n > 0 THEN n ELSE 0

(* The limit: of the requests counted on an address within an hour, no more *)
(* than Limit are let through, however their INCRs and EXPIREs interleave.  *)
(* Requests that failed open were not counted.                              *)
CapPerWindow ==
  \A k \in Counters :
    Cardinality({r \in Requests : pc[r] = "admitted" /\ KeyOf(r) = k /\ InWindow(r)})
      <= AtLeastZero(Limit)

(* Nobody is refused for nothing: Limit INCRs were counted on the key       *)
(* before, each of another request or lost on its way back to one.          *)
RefusalEarned ==
  \A r \in Requests :
    pc[r] = "refused" /\ InWindow(r) =>
      Cardinality({q \in Requests : KeyOf(q) = KeyOf(r) /\ 0 < count[q] /\ count[q] < count[r]})
        + lost[KeyOf(r)] >= Limit

(* "each hour gets its own counter" (ratelimit.go:7): a counter is never    *)
(* deleted before its own hour is over.                                     *)
NoResetInWindow ==
  [][\A k \in Counters : counter[k] > 0 /\ counter'[k] = 0 => now' >= WindowEnd(k)]_vars

(* A counter that will not expire is about to get its TTL, or its EXPIRE    *)
(* was lost: with an error nobody looks at, with the instance, or because   *)
(* the reply to the first INCR was.                                         *)
CountersExpire ==
  \A k \in Counters :
    counter[k] > 0 /\ expiry[k] = 0 =>
      k \in leaked \/ \E r \in Requests : pc[r] = "expire" /\ KeyOf(r) = k

(* A client that waits for X-RateLimit-Reset is past the hour it was        *)
(* counted in, even if the hour turned while it was served.                 *)
ResetNotEarly ==
  \A r \in Requests :
    pc[r] \in {"admitted", "refused"} => resetAt[r] >= WindowEnd(KeyOf(r))

----------------------------------------------------------------------------
(* The inductive invariant behind the limit.                                *)

(* How far a request is, by its own variables.                              *)
Progress ==
  \A r \in Requests :
    /\ pc[r] \in {"expire", "decide", "admitted", "refused"} => count[r] > 0
    /\ pc[r] = "incr" => count[r] = 0
    /\ count[r] > 0 => counted[r] <= now
    /\ pc[r] = "admitted" => count[r] <= Limit
    /\ pc[r] = "idle" => count[r] = 0
    /\ pc[r] # "idle" => hour[r] * Hour <= now

(* A TTL reaches at least to the end of the key's hour.                     *)
ExpiryAfterWindow ==
  \A k \in Counters : expiry[k] # 0 => expiry[k] >= WindowEnd(k)

(* Within the hour, a counter is at least every count it has given out.     *)
CountsBounded ==
  \A r \in Requests :
    count[r] > 0 /\ now < WindowEnd(KeyOf(r)) => count[r] <= counter[KeyOf(r)]

(* No two requests of an hour got the same count.                           *)
CountsDistinct ==
  \A q, r \in Requests :
    InWindow(q) /\ InWindow(r) /\ KeyOf(q) = KeyOf(r) /\ count[q] = count[r] => q = r

LimitInv ==
  TypeOK /\ Progress /\ ExpiryAfterWindow /\ CountsBounded /\ CountsDistinct
====
