---- MODULE Pipeline ----
(***************************************************************************)
(* One request through the whole chain that Build puts together, for       *)
(* several requests at once on one instance:                               *)
(*                                                                         *)
(*   Logger -> Metrics -> Recover -> ErrorHandler -> rate limiter          *)
(*          -> idempotency -> handler -> Postgres                          *)
(*                                                                         *)
(* The limiter is RateLimit, the middleware and the mutations it wraps are *)
(* Idempotency, each with its own program counter over the same clock.     *)
(* This module adds what is between and around them: the routes, the       *)
(* query handler, what the request log and the metrics see, and the pool   *)
(* of database connections for which requests wait.                        *)
(***************************************************************************)
EXTENDS Integers, FiniteSets

CONSTANTS
  Requests, Buckets, Limit, Hour, MaxTime, Retries,             \* see RateLimit
  Keys, Unfit, NoKey, Bodies, Truncated, Verdict, RowTTL, Overlap, NilBody,  \* see Idempotency
  Faults,  \* those of RateLimit and Idempotency but "crash", and "hang"
  Pool,    \* MaxOpenConns less the connection that golang-migrate keeps
  NoTodo,  \* an id that was never given out
  NoUuid   \* an id that is not of the type of todos.id

VARIABLES
  now,
  counter, expiry, lpc, bucket, hour, tries, count, counted, resetAt, lost, leaked,
  table, ipc, op, body, resp, errs, cancelled, effects, disturbed,
  route,     \* which route each request is for; fixed
  stage,     \* how far each request is through the outer chain
  target,    \* the todo that a query asks for
  wrote,     \* the answer written outside Idempotency
  panicked,  \* requests whose handler panicked
  quit,      \* queries whose client is gone (mutations: cancelled)
  held,      \* held[r]: the connections that r has from the pool
  running,   \* requests with a statement on a connection
  hung,      \* requests whose statement or storage call does not come back
  inFlight,  \* http_requests_in_flight
  total,     \* http_requests_total, by status
  log        \* the http_request lines: request and status

clock      == now
limitVars  == <<counter, expiry, lpc, bucket, hour, tries, count, counted, resetAt, lost, leaked>>
idemVars   == <<table, ipc, op, body, resp, errs, cancelled, effects, disturbed>>
queryVars  == <<target, wrote, quit>>
poolVars   == <<held, running, hung>>
seenVars   == <<inFlight, total, log>>
vars == <<clock, limitVars, idemVars, route, stage, queryVars, panicked, poolVars, seenVars>>

L == INSTANCE RateLimit WITH pc <- lpc, Faults <- Faults \intersect {"down", "lost"}
I == INSTANCE Idempotency WITH pc <- ipc, TTL <- RowTTL,
       Faults <- Faults \intersect {"db", "storage", "cancel", "panic", "truncate"}

ASSUME PipelineAssumption ==
  /\ L!RateLimitAssumption
  /\ I!IdempotencyAssumption
  /\ Faults \subseteq {"down", "lost", "db", "storage", "cancel", "panic", "truncate", "hang"}
  /\ Pool \in Nat \ {0}
  /\ NoTodo \notin Requests /\ NoUuid \notin Requests /\ NoTodo # NoUuid

----------------------------------------------------------------------------
(* "slash" is a path with a slash too many or too few at its end.           *)
Routes == {"query", "mutation", "health", "unknown", "slash"}

(* The middleware for every route, outermost first.                         *)
ChainRecoverFirst == <<"Recover", "RequestID", "Logger", "Metrics", "ErrorHandler">>  \* mutant

Chain == <<"RequestID", "Logger", "Metrics", "Recover", "ErrorHandler">>

Position(name) == CHOOSE i \in DOMAIN Chain : Chain[i] = name

Encloses(outer, inner) == Position(outer) < Position(inner)

(* Answers: the kinds of Idempotency, and those of the other handlers.      *)
Answers == I!Kinds \union {"ok", "notfound", "limited", "redirected"}

Answer(r) == IF route[r] = "mutation" /\ ipc[r] = "answered" THEN resp[r].kind ELSE wrote[r]

InApi(r) == route[r] \in {"query", "mutation"}

(* metrics.skipPaths.                                                       *)
Skipped(r) == route[r] = "health"

(* The request goes through the chain.                                      *)
Chained(r) == route[r] # "slash"

(* The ids of todos that some client has been given in a 201.               *)
Told ==
  {resp[q].of : q \in {p \in Requests : stage[p] = "left" /\ Answer(p) = "created"
                                          /\ op[resp[p].of].endpoint = "todos"}}

(* Only a mutation has an operation; the others have a fixed one.           *)
NoOperation == CHOOSE o \in I!Operation : TRUE

Init ==
  /\ L!Init
  /\ I!Init
  /\ route \in [Requests -> Routes]
  /\ \A r \in Requests : route[r] # "mutation" => op[r] = NoOperation
  /\ stage = [r \in Requests |-> "outside"]
  /\ target = [r \in Requests |-> NoTodo]
  /\ wrote = [r \in Requests |-> "blank"]
  /\ panicked = {}
  /\ quit = {}
  /\ held = [r \in Requests |-> {}]
  /\ running = {}
  /\ hung = {}
  /\ inFlight = 0
  /\ total = [a \in Answers |-> 0]
  /\ log = {}

Stage(r, s) == stage' = [stage EXCEPT ![r] = s]

Writes(r, answer) == wrote' = [wrote EXCEPT ![r] = answer]

----------------------------------------------------------------------------
(* The outer chain.                                                         *)

(* The request passes Metrics, which counts it as in flight, and reaches    *)
(* the limiter if its route is in the API group.                            *)
Enter(r) ==
  /\ stage[r] = "outside" /\ Chained(r)
  /\ Stage(r, "inside")
  /\ inFlight' = IF Skipped(r) THEN inFlight ELSE inFlight + 1
  /\ IF InApi(r) THEN L!Arrive(r) ELSE UNCHANGED <<clock, limitVars>>
  /\ IF route[r] = "query"
       THEN \E id \in Told \union {NoTodo, NoUuid} : target' = [target EXCEPT ![r] = id]
       ELSE UNCHANGED target
  /\ UNCHANGED <<idemVars, route, wrote, quit, panicked, poolVars, total, log>>

(* gin's router, which New leaves with RedirectTrailingSlash, answers 301 or *)
(* 307 itself: none of the middleware runs.                                 *)
Redirect(r) ==
  /\ stage[r] = "outside" /\ ~ Chained(r)
  /\ Writes(r, "redirected")
  /\ Stage(r, "left")
  /\ UNCHANGED <<clock, limitVars, idemVars, route, target, quit, panicked, poolVars, seenVars>>

(* /health answers, and gin answers 404 on a path it does not know.         *)
AnswerDirectly(r) ==
  /\ stage[r] = "inside" /\ ~ InApi(r)
  /\ Writes(r, IF route[r] = "health" THEN "ok" ELSE "notfound")
  /\ Stage(r, "answered")
  /\ UNCHANGED <<clock, limitVars, idemVars, route, target, quit, panicked, poolVars, seenVars>>

(* Check and its two commands.                                              *)
RateLimits(r) ==
  /\ stage[r] = "inside"
  /\ L!Serve(r)
  /\ UNCHANGED <<idemVars, route, stage, queryVars, panicked, poolVars, seenVars>>

(* ratelimit.Middleware calls c.Next, or answers 429 and calls c.Abort.     *)
PassesAborted(r) == lpc[r] \in {"admitted", "opened", "refused"}   \* mutant: no c.Abort

Passes(r) == lpc[r] \in {"admitted", "opened"}

Refused(r) ==
  /\ stage[r] = "inside"
  /\ lpc[r] = "refused"
  /\ Writes(r, "limited")
  /\ Stage(r, "answered")
  /\ UNCHANGED <<clock, limitVars, idemVars, route, target, quit, panicked, poolVars, seenVars>>

(* The mutations' group: the idempotency middleware takes the request, and  *)
(* begins to read its body.                                                 *)
ToMutation(r) ==
  /\ stage[r] = "inside" /\ route[r] = "mutation"
  /\ Passes(r)
  /\ I!Arrive(r)
  /\ UNCHANGED <<limitVars, route, stage, queryVars, panicked, poolVars, seenVars>>

(* The body has come, or what there will be of it.  Nothing on the server's *)
(* side makes a client send it.                                             *)
Receives(r) ==
  /\ I!Receive(r)
  /\ UNCHANGED <<limitVars, route, stage, queryVars, panicked, poolVars, seenVars>>

ToQuery(r) ==
  /\ stage[r] = "inside" /\ route[r] = "query"
  /\ Passes(r)
  /\ Stage(r, "query")
  /\ UNCHANGED <<clock, limitVars, idemVars, route, queryVars, panicked, poolVars, seenVars>>

(* The after-part of an outer middleware runs, unless a panic is on its way *)
(* out through it.                                                          *)
Resumes(name, r) == r \in panicked => Encloses(name, "Recover")

(* The answer was written by ErrorHandler.                                  *)
ByErrorHandler(r) ==
  \/ r \in errs
  \/ /\ route[r] = "query" /\ r \notin panicked
     /\ Answer(r) \in {"notfound", "internal"}

(* The status that a middleware finds on the writer when it resumes.        *)
SeenBy(name, r) ==
  IF ByErrorHandler(r) /\ ~ Encloses(name, "ErrorHandler") THEN "blank" ELSE Answer(r)

(* The deferred inFlight.Dec, which runs in a panic too.                    *)
GaugeAfterAlways(r) == inFlight - 1      \* mutant: skipPaths is looked at on the way in only

GaugeAfter(r) == IF Skipped(r) THEN inFlight ELSE inFlight - 1

(* The request goes out through Metrics and Logger.                         *)
Leave(r) ==
  /\ stage[r] = "answered" \/ (stage[r] = "inside" /\ ipc[r] = "answered")
  /\ Stage(r, "left")
  /\ inFlight' = GaugeAfter(r)
  /\ total' = IF Skipped(r) \/ ~ Resumes("Metrics", r)
                THEN total ELSE [total EXCEPT ![SeenBy("Metrics", r)] = @ + 1]
  /\ log' = IF Resumes("Logger", r) THEN log \union {<<r, SeenBy("Logger", r)>>} ELSE log
  /\ UNCHANGED <<clock, limitVars, idemVars, route, queryVars, panicked, poolVars>>

----------------------------------------------------------------------------
(* The pool of connections.                                                 *)

Handles(r) == ipc[r] = "handle" /\ op[r].endpoint = "todos" /\ I!VerdictOf(r) # "invalid"

(* The next thing that the request does is a statement.                     *)
NeedsConnection(r) ==
  ipc[r] \in {"get", "save"} \/ Handles(r) \/ stage[r] = "query"

Gone(r) == r \in cancelled \union quit

Connections == 1..Pool

HeldBy(S) == UNION {held[r] : r \in S}

Waits(r) == NeedsConnection(r) /\ r \notin running

(* database/sql gives a free connection to one of those that wait for one,  *)
(* to no one in particular.                                                 *)
Acquire(r) ==
  /\ Waits(r) /\ ~ Gone(r)
  /\ \E c \in Connections \ HeldBy(Requests) : held' = [held EXCEPT ![r] = @ \union {c}]
  /\ running' = running \union {r}
  /\ UNCHANGED <<clock, limitVars, idemVars, route, stage, queryVars, panicked, hung, seenVars>>

(* ExecContext and GetContext give the connection back when they return,    *)
(* with an error or without.                                                *)
ReleasesQuietly(r) ==     \* mutant: rows are not closed on the way of an error
  /\ running' = running \ {r}
  /\ hung' = hung \ {r}
  /\ held' = IF Gone(r) THEN held ELSE [held EXCEPT ![r] = {}]

Releases(r) ==
  /\ running' = running \ {r}
  /\ hung' = hung \ {r}
  /\ held' = [held EXCEPT ![r] = {}]

(* The request is in the storage provider's Upload.                         *)
AtStorage(r) ==
  ipc[r] \in {"handle", "reply"} /\ op[r].endpoint = "upload" /\ I!VerdictOf(r) = "valid"

(* Nothing limits how long a statement or a storage call takes.  While a    *)
(* statement waits in Postgres, for a lock say, the request waits with it,  *)
(* for as long as its client does; in Upload it may wait for longer.        *)
Hang(r) ==
  /\ "hang" \in Faults
  /\ r \notin hung
  /\ (r \in running /\ NeedsConnection(r)) \/ AtStorage(r)
  /\ hung' = hung \union {r}
  /\ UNCHANGED <<clock, limitVars, idemVars, route, stage, queryVars, panicked, held, running, seenVars>>

(* The S3 client gives its request up when the context is done; the local   *)
(* provider, which ignores it, does not.                                    *)
Abandons(r) ==
  /\ r \in hung /\ r \in cancelled
  /\ op[r].endpoint = "upload" /\ (I!ExecuteFails(r) \/ I!AcknowledgeLost(r))
  /\ hung' = hung \ {r}
  /\ UNCHANGED <<limitVars, route, stage, queryVars, panicked, held, running, seenVars>>

(* A call to the database may return an error.                              *)
MayReturn(r) == r \in running \ hung \/ Gone(r)

----------------------------------------------------------------------------
(* The query handler: GetByID of the todo module.                           *)

QueryAnswers(r, answer) ==
  /\ stage[r] = "query"
  /\ Writes(r, answer)
  /\ Stage(r, "answered")
  /\ Releases(r)
  /\ UNCHANGED <<clock, limitVars, idemVars, route, target, quit, seenVars>>

(* The row is there, or it is not: sql.ErrNoRows is ErrNotFound.            *)
Query(r) ==
  /\ r \in running \ hung /\ ~ Gone(r)
  /\ target[r] # NoUuid
  /\ QueryAnswers(r, IF target[r] \in effects THEN "ok" ELSE "notfound")
  /\ UNCHANGED panicked

(* What the client is told of any other error, that of Postgres at an id    *)
(* which is no UUID among them.                                             *)
ErrorAnswerNotFound == "notfound"   \* mutant: every error of the SELECT is ErrNotFound

ErrorAnswer == "internal"

QueryFails(r) ==
  /\ MayReturn(r) /\ ("db" \in Faults \/ Gone(r) \/ target[r] = NoUuid)
  /\ QueryAnswers(r, ErrorAnswer)
  /\ UNCHANGED panicked

QueryPanics(r) ==
  /\ "panic" \in Faults
  /\ r \notin hung
  /\ QueryAnswers(r, "internal")
  /\ panicked' = panicked \union {r}

QueryQuits(r) ==
  /\ "cancel" \in Faults
  /\ stage[r] = "query" /\ r \notin quit
  /\ quit' = quit \union {r}
  /\ UNCHANGED <<clock, limitVars, idemVars, route, stage, target, wrote, panicked, poolVars, seenVars>>

----------------------------------------------------------------------------
(* The mutations: the steps of Idempotency, those that are a statement on   *)
(* a connection.                                                            *)

(* Steps that use no connection.                                            *)
Mutates(r) ==
  /\ r \notin hung
  /\ \/ I!Reject(r) \/ I!Finish(r)
     \/ op[r].endpoint = "upload" /\ (\/ I!Execute(r) \/ I!ExecuteFails(r)
                                       \/ I!Acknowledge(r) \/ I!AcknowledgeLost(r))
  /\ UNCHANGED <<limitVars, route, stage, queryVars, panicked, poolVars, seenVars>>

(* The INSERT of a todo takes effect; its answer is on the way.             *)
Stores(r) ==
  /\ r \in running \ hung
  /\ op[r].endpoint = "todos" /\ I!Execute(r)
  /\ UNCHANGED <<limitVars, route, stage, queryVars, panicked, poolVars, seenVars>>

(* The statement is over, with an answer.                                   *)
Returns(r) ==
  /\ r \in running \ hung
  /\ \/ I!Replay(r) \/ I!Refuse(r) \/ I!Miss(r) \/ I!Save(r) \/ I!SaveNull(r)
     \/ op[r].endpoint = "todos" /\ I!Acknowledge(r)
  /\ Releases(r)
  /\ UNCHANGED <<limitVars, route, stage, queryVars, panicked, seenVars>>

(* The statement is over with an error, or was not begun, or was given up   *)
(* because its client has gone.                                             *)
Fails(r) ==
  /\ MayReturn(r)
  /\ \/ I!LookupFails(r) \/ I!SaveFails(r)
     \/ op[r].endpoint = "todos" /\ (I!ExecuteFails(r) \/ I!AcknowledgeLost(r))
  /\ Releases(r)
  /\ UNCHANGED <<limitVars, route, stage, queryVars, panicked, seenVars>>

Panics(r) ==
  /\ r \notin hung
  /\ I!Panic(r)
  /\ panicked' = panicked \union {r}
  /\ Releases(r)
  /\ UNCHANGED <<limitVars, route, stage, queryVars, seenVars>>

Quits(r) ==
  /\ I!Cancel(r)
  /\ UNCHANGED <<limitVars, route, stage, queryVars, panicked, poolVars, seenVars>>

Tick ==
  /\ L!Tick
  /\ I!Tick
  /\ UNCHANGED <<route, stage, queryVars, panicked, poolVars, seenVars>>

(* What the server does for a request it has accepted.                      *)
Serve(r) ==
  \/ AnswerDirectly(r) \/ RateLimits(r) \/ Refused(r) \/ ToMutation(r) \/ ToQuery(r)
  \/ Acquire(r) \/ Query(r) \/ QueryFails(r) \/ QueryPanics(r)
  \/ Mutates(r) \/ Stores(r) \/ Returns(r) \/ Fails(r) \/ Panics(r)
  \/ Leave(r)

Next ==
  \/ \E r \in Requests : \/ Enter(r) \/ Redirect(r) \/ Receives(r) \/ Serve(r)
                          \/ Hang(r) \/ Abandons(r) \/ QueryQuits(r) \/ Quits(r)
  \/ Tick

Spec == Init /\ [][Next]_vars

(* Goroutines are scheduled, Redis commands return (the client library has  *)
(* timeouts), statements and storage calls that do not hang return, and a   *)
(* free connection goes to a request that waits.  No body need come.        *)
FairSpec == Spec /\ \A r \in Requests : WF_vars(Serve(r))

----------------------------------------------------------------------------
(* Properties.                                                              *)

Stages == {"outside", "inside", "query", "answered", "left"}

(* Every variable of this module holds values of its type.                  *)
TypeOK ==
  /\ route \in [Requests -> Routes]
  /\ stage \in [Requests -> Stages]
  /\ target \in [Requests -> Requests \union {NoTodo, NoUuid}]
  /\ wrote \in [Requests -> Answers]
  /\ panicked \subseteq Requests
  /\ quit \subseteq Requests
  /\ held \in [Requests -> SUBSET Connections]
  /\ running \subseteq Requests
  /\ hung \subseteq Requests
  /\ inFlight \in Nat
  /\ total \in [Answers -> Nat]
  /\ log \subseteq Requests \X Answers

(* What the limiter is for, end to end: of the requests counted on an       *)
(* address within an hour, no more than Limit store anything or are         *)
(* answered from the table, and a request refused by it leaves no row that  *)
(* could be replayed.                                                       *)
EffectsWithinLimit ==
  \A k \in L!Counters :
    /\ Cardinality({r \in Requests : /\ r \in effects \/ resp[r].of # r
                                     /\ lpc[r] # "opened" /\ L!KeyOf(r) = k /\ L!InWindow(r)})
         <= L!AtLeastZero(Limit)
    /\ \A row \in table : lpc[row.resp.of] # "refused"

(* "Logger next - so we log even if something below panics.  Metrics next - *)
(* so we record even failed requests" (wire.go:85-86): every request that   *)
(* has left by the chain is logged and counted once, with the status its    *)
(* client got, and the gauge is the number of requests inside.              *)
ObservedAsAnswered ==
  /\ log = {<<r, Answer(r)>> : r \in {q \in Requests : stage[q] = "left" /\ Chained(q)}}
  /\ \A a \in Answers :
       total[a] = Cardinality({r \in Requests : /\ stage[r] = "left" /\ Chained(r)
                                                /\ ~ Skipped(r) /\ Answer(r) = a})
  /\ inFlight = Cardinality({r \in Requests : stage[r] \notin {"outside", "left"} /\ ~ Skipped(r)})

(* A client that was told of a todo, by its own 201 or by a replayed one,   *)
(* never gets a 404 for it, whatever fails.                                 *)
ToldIsFound ==
  \A r \in Requests : route[r] = "query" /\ target[r] \in Requests => Answer(r) # "notfound"

(* What alone can hold a request for good: its own statement hangs and its  *)
(* client does not give up, or its storage call hangs; all connections are  *)
(* with statements that hang; or its body does not come.                    *)
Stuck(r) ==
  \/ r \in hung /\ (~ Gone(r) \/ AtStorage(r))
  \/ Waits(r) /\ ~ Gone(r) /\ HeldBy(hung) = Connections
  \/ ipc[r] = "read"

(* Every request that enters leaves, or is stuck from some moment on: no    *)
(* connection is kept by a request that is done with it, or by one that     *)
(* waits for a second, and no failure on the way leads nowhere.             *)
EndsUnlessStuck ==
  \A r \in Requests : stage[r] = "inside" ~> (stage[r] = "left" \/ []Stuck(r))

----------------------------------------------------------------------------
(* The inductive invariant behind the safety properties, over those of the  *)
(* limiter and of the middleware.                                           *)

(* Nobody is in the middleware but a mutation that the limiter let through, *)
(* nobody leaves from the middle of it, and whoever is in the chain belongs *)
(* there.                                                                   *)
BehindLimiter ==
  \A r \in Requests :
    /\ ipc[r] # "idle" => route[r] = "mutation" /\ Passes(r) /\ stage[r] \in {"inside", "left"}
    /\ stage[r] = "left" => ipc[r] \in {"idle", "answered"}
    /\ stage[r] = "query" => route[r] = "query"
    /\ stage[r] \notin {"outside", "left"} => Chained(r)
    /\ wrote[r] \in {"blank", "ok", "notfound", "limited", "internal", "redirected"}

(* A todo that is asked for by its id was stored, and was so before the     *)
(* request for it came in.                                                  *)
TargetsStored ==
  \A r \in Requests :
    /\ target[r] \in effects \union {NoTodo, NoUuid}
    /\ stage[r] = "outside" => wrote[r] = "blank"
    /\ route[r] = "query" /\ target[r] \in Requests => wrote[r] # "notfound"

PipelineInv ==
  TypeOK /\ BehindLimiter /\ TargetsStored /\ ObservedAsAnswered
====
