# Verification of api-base

This directory holds TLA+ models of api-base (the Go API template under
`src/`), the configurations under which TLC checks them, and theorems about
them that TLAPS proves. The models are translated from the code; where the
code's own comments promise something else, that is said, and for the main cases
shown by a run (see "Where the code and its comments disagree").

## 1. The system

One binary, `cmd/api`, is started once or several times over the same Postgres
database and the same Redis. It migrates the schema, builds a chain of gin
middleware around two modules, and serves until it gets a signal.

    client -> RequestID -> Logger -> Metrics -> Recover -> ErrorHandler
           -> rate limiter (Redis) -> idempotency (Postgres) -> handler
           -> todo service/repository (Postgres) | uploads service/provider (disk, S3, R2)

| Component | State it keeps | Operations | What is hard about it |
|---|---|---|---|
| Idempotency middleware and store (`internal/shared/idempotency`) | table `idempotent_requests`; per attempt the body it read and the response captured | `Get`, the wrapped handler, `Save` | three separate steps with no transaction around them; overlapping retries, cancelled contexts, database errors, expiry, process death between any two steps, keys that the column does not hold, a body that is cut or never comes |
| Todo module (`internal/modules/todo`) | table `todos` | `Create`, `GetByID` | the INSERT may commit and its reply be lost; any error of the SELECT but "no rows" must not become a 404 |
| Uploads module (`internal/modules/uploads`) | none | `Upload` under a fresh UUID | reports a backend failure as a written response, not by `c.Error` |
| `ErrorHandler`, `Recover` (`internal/shared/middleware`) | none | write the response of `c.Error`, of a panic | they run outside the idempotency middleware, so what they write is not captured |
| Rate limiter (`internal/shared/ratelimit`) | one Redis counter per address and hour | `INCR`, `EXPIRE`, decide | two commands, the second only after the first count; the client library resends commands; the hour turns while a request is served |
| Storage providers (`internal/providers/storage`) | files under keys, on disk or in a bucket | `Upload`, `Download`, `Delete`, `SignedURL` | the local provider is a sequence of system calls on a shared file; an S3 request may act and its answer be lost, or act after its call has returned |
| Storage registry, configuration | factories; options | `Register`, `Resolve`, `Load` | which options reach which factory |
| Postgres pool and migrations (`internal/platform/postgres`) | `schema_migrations`, an advisory lock; the connections in use | `New`, `Migrate`, every statement | several instances migrate at once; a process dies inside a migration; a statement hangs, and there is no timeout |
| Redis client (`internal/platform/redis`) | none | `New` | see the rate limiter |
| HTTP server (`internal/platform/server`), `main`, `app` | a listener goroutine, `errCh`, `sigCh`, Shutdown's timeout | `Run` | signal, listener error, drain, timeout and requests race; only reading a header has a time limit |
| Request log, metrics (`middleware/logger.go`, `observability/metrics`) | counters by status, an in-flight gauge | observe a request on its way out | panics, and errors that are written by a middleware further in |
| Request id | a value in the context | put, read | nothing depends on it |
| Application wiring (`internal/app`) | none | the order of the chain, the groups, the routes | what one middleware makes of what another did |
| Module generator (`cmd/gen`) | the directory `internal/modules/<name>` | read the arguments, write a tree of files | arguments in any order; a run that fails or dies half way; two at once |
| Validator, API documentation | none | formatting | - |

What makes each of them correct:

* idempotency: a key takes effect once, a replay is the answer to the same key
  and body, clients of one key agree, nobody is refused without a reason, every
  attempt ends;
* rate limiter: no more than the limit gets through per hour, nobody is refused
  early, counters do not pile up, `X-RateLimit-Reset` is honest;
* lifecycle: nobody serves an incomplete schema, no accepted request is dropped
  without one of the known reasons, a signal or a dead listener ends the process,
  the provider served with is the one configured;
* storage: the last write wins, and a file that is no upload's whole file has an
  explanation;
* the chain: no more requests than the limit have an effect or a replay, and a
  refused one leaves no row; log, counter and gauge agree with what clients got;
  who was told of a todo never gets a 404 for it;
* pool: every request ends unless its own body, statement or storage call never
  does, or the statements that hang have all connections;
* generator: arguments mean the same in every order, and a module that is
  reported as scaffolded is one run's complete tree.

## 2. Modules

| Module | What it is |
|---|---|
| `OnceOnly` | the abstract promise of the idempotency middleware: a memo of first answers, replays, one effect per protected key |
| `Idempotency` | the middleware, with the handlers it wraps and `Recover`/`ErrorHandler` around it |
| `IdempotencyProofs` | its invariants, and that it implements `OnceOnly` |
| `AnswerProofs` | on top of these: what the clients of one key may conclude from their answers |
| `RateLimit`, `RateLimitProofs` | the limiter over its Redis counters |
| `Lifecycle`, `LifecycleProofs` | configuration, `Build`, migrations, provider resolution and `server.Run`, for several instances |
| `Storage`, `StorageProofs` | the storage providers under concurrent calls |
| `Pipeline`, `PipelineProofs` | requests through the whole chain: instances of `RateLimit` and `Idempotency` over one clock, with the routes, the query handler, the pool, the log and the metrics around them |
| `Gen`, `GenProofs` | the module generator: its arguments, and several runs on one source tree |
| `GenArgsProofs` | on top of these: what a list of arguments of any length means |
| `MCIdempotency`, `MCRateLimit`, `MCLifecycle`, `MCStorage`, `MCPipeline`, `MCGen` | values of constants and symmetry for TLC |

`IdempotencyProofs`, ... extend the module they prove about and `TLAPS`; `MC*`
extend it and give values to constants, and replace no definition of it. A
definition marked `mutant` is a plausible bug of the definition next to it. No
behaviour uses it: it is there to show that the properties would notice.

### Idempotency

A member of `Requests` is one HTTP attempt; a retry is another member with the
same `op`. `pc[r]` is where the attempt is:

| `pc` | code |
|---|---|
| `idle` | not sent |
| `read` | `io.ReadAll`, or the handler's own reading where there is no key: the body is not there yet (93) |
| `get` | the body is read and hashed, before `Store.Get` (94-97) |
| `handle` | in the handler, before its backend call |
| `reply` | the backend has stored, its answer is on the way |
| `save` | after `c.Next()`, before `Store.Save` (115) |
| `errors` | back in `ErrorHandler` |
| `answered`, `gone` | over; the process died |

`table` is the table with its primary key: `Inserted` is `ON CONFLICT DO
NOTHING`, `Found` is `Get`'s `expires_at > NOW()`. `resp` is what has been
written so far; its field `of` names the attempt whose handler produced it, so
that a replay can be told from an answer of the attempt's own. `effects`
(attempts that stored something) and `disturbed` (keys on which something went
wrong) are history variables: no guard of an action that models code reads
them. A key becomes disturbed when attempts on it that have their bodies overlap, when
a Get or a Save fails, when a Get comes after the row's expiry, when the body is
cut, when a backend's answer is lost, or when a process dies or a handler panics
between effect and row. Those are exactly the environments in which the code does
not protect a key; the violation runs exhibit the main ones.

`Unfit` are the keys that `idempotency_key VARCHAR(255)` does not hold, longer ones
and such as are no UTF-8: `SaveFails` is then the only outcome of Save, with no
fault, after which the key counts as disturbed. `Arrive` begins to read the body and
`Receive` ends it, whole or cut; nothing makes a client send it, so `Receive` is not
one of the server's own steps, `Serve`. `Reported` is what the repository makes of
an error: an INSERT that database/sql sent again and that meets its own row is a
unique violation, `ErrConflict`, 409.

`Crash` ends any set of open attempts: the death of one instance, or of several
that share the database. It is also what the end of Shutdown's time does to the
requests that are left, which is `dropped` in `Lifecycle`.

### RateLimit

`Incr`, `Expire` and `Decide` are `Check`'s two commands and what follows. Redis
is `counter` and `expiry`; `Tick` moves the clock and deletes keys that are due.
`IncrReplyLost` is an INCR that ran and was not heard of, which go-redis sends
again up to `Retries` times and then reports as an error, on which the
middleware fails open. `lost` and `leaked` are histories. One clock stands for
the instances' and for Redis's: clock skew is not modelled.

### Lifecycle

`step[i]` is where the main goroutine of instance `i` is, from `load` through
the steps of `Build` to `run`, `notify`, `select` and `drain` of `server.Run`.
`listener[i]` is the goroutine in `ListenAndServe`. golang-migrate is modelled
by what `Migrate` relies on: `Up` takes the advisory lock, refuses a dirty
version, marks the next version dirty, runs the statements and marks it clean.
The lock goes with the database session when the process dies. `Exit` is every
way out of `main`. Environments are sets of variables that are set, so that
`OptionsOf`/`Passed` can say which options are loaded and which are passed. A
`STORAGE_LOCAL_*` variable counts as set only if its value is not the default, as one
that is makes no difference to the provider.

### Storage

A member of `Calls` is one call of a provider's method; `call` says which.
`dir[k]` is the directory entry or object key, `data[f]` the content of a file,
named by the upload that created it, so that a file stays readable for those
who have it open after `Remove`. A file is up to `Chunks` chunks, each the name
of the upload that wrote it, so a torn file shows which uploads it is made of.
Local calls are sequences of system calls (`Create` truncates whoever else has
the file open; `CopyIn` writes at the call's own offset; `CopyOut` reads).
Calls of S3 are single requests whose answer may be lost and which the SDK may
send again; R2 forwards to S3. A request that was given up may arrive at any time,
after its call has returned too (`Strays`, `Late`). `before[c]` is a history: the
calls that were over when `c` began.

`Clean` is what `filepath.Join` makes of a key: for the local provider "x", "./x"
and "a/../x" are one file, for S3 three objects. That ".." can leave the base
directory makes no difference to what the properties say of a file. A deferred
Close that fails (`CloseFails`) loses chunks that the upload had written; the caller is
told of success, and the model calls the upload `short`, so that properties can
tell it from one that is `done`. What `os.Remove` does beside an open upload is what
Linux does: the name goes, the file stays with those who have it.

In the upload route the key is a fresh UUID, so calls overlap on a key only
through other users of the `Provider` interface, for which it is written
(provider.go:8-28 stores avatars under a user's id).

### Pipeline

`L` and `I` are instances of `RateLimit` and `Idempotency` with program counters
of their own (`lpc`, `ipc`) over the same `now`. Every step of `Pipeline` is a
step of the one, of the other, or of neither (the clock moves in both), so the
sections above say what those steps are; this module adds when they may happen.

| `Pipeline` | code |
|---|---|
| `stage[r]`: `outside`, `inside`, `query`, `answered`, `left` | before the chain, in it, in `GetByID`, answered outside `Idempotency`, past `Logger` |
| `Redirect`, `Chained` | gin's redirect of a path with a slash too many or too few, before any middleware |
| `Enter`, `Leave` | the parts of `Logger` and `Metrics` before and after `c.Next()` |
| `Chain`, `Resumes`, `SeenBy` | the order of `engine.Use` in `Build`: which middleware a panic passes through, and which status one finds when it resumes |
| `RateLimits`, `Passes`, `Refused` | `ratelimit.Middleware` and its `c.Abort` |
| `ToMutation`, `Receives`, `ToQuery` | the groups that `Build` gives to the modules; a mutation's body |
| `Query`, `QueryFails`, `QueryPanics` | `GetByID` from repository to answer; an id that is no UUID (`NoUuid`) makes Postgres return an error, which is a 500 |
| `Acquire`, `Releases` | `database/sql`'s pool, around each statement of Get, Save, INSERT and SELECT |
| `Hang`, `AtStorage`, `Abandons` | a statement, or the storage call of an upload, that does not come back; S3 gives one up when its client leaves |
| `Stores`, `Returns`, `Fails` | an action of `Idempotency` that is the effect, the return or the failure of a statement |
| `inFlight`, `total`, `log` | the gauge, the counter by status, the `http_request` lines |

`Pool` is `MaxOpenConns` less the one connection that golang-migrate takes from the
same pool and does not give back. A statement may hang (`hung`): nothing but its own
client's leaving ends it, where Postgres is taken to answer the request to cancel. A
storage call may hang too, for which nothing sets a time limit; the S3 client gives
up with the request's context, the local provider never does. A client may leave any
time after its request has been let through; while the limiter runs, a cancelled
context is a failed Redis command, which is the fault `down`, so that case is the
same as leaving right after. The death of the process is left to `Idempotency` and
`Lifecycle`.

### Gen

A member of `Runs` is one invocation of `gen module`. `Scanned` is the loop over the
arguments as a fold of `Take`; a word is spelt by the classes of its characters,
which is all that flags and `validateName` look at. `Stat`, `Mkdir` and `Write` are
the `os` calls that other runs can see, one file of the template's tree at a time; a
file carries the run that wrote it and whether it was written whole. `before[p]` is
a history: the runs that were over when `p` began. Two writers inside one file at
the same moment are not modelled (the later one has the file). `validateName` looks
at the first byte of a name and at every character of it: `wide digit` is a digit
outside ASCII whose first byte taken alone is the code of a letter, so that a name
may begin with it; any other character outside ASCII is refused, at the beginning or
later, and is of class `other`. `MkdirFails` may leave the directory behind. Runs on
one module at the same time are not kept apart by anything (`Stat` and `MkdirAll`
leave a window), and nothing in the repository says that they are: the properties
say what holds of runs that do not overlap.

## 3. Runs

Passing runs, and what they show:

| Run | Instance | Shows |
|---|---|---|
| `idem_faults` | 2 attempts, 2 keys (one that the table does not hold), 3 bodies, both endpoints, a keyed or keyless request, TTL and clock of 1, all faults, overlap | `AtMostOnceUndisturbed`, `ReplaySound`, `SameAnswer`, `RefusedOnlyOnReuse`, the inductive invariants, the refinement `KeepsPromise`, and the liveness property `EveryAttemptEnds` |
| `idem_retries` | 4 attempts, 1 key, overlap, no faults, symmetric | `ReplaysAgree`, `KeepsPromise` with two saves that race and two replays |
| `rate_limit` | 3 requests, 1 address, limit 1, an hour of 2 ticks in 3 ticks, one resend, all faults | `CapPerWindow`, `RefusalEarned`, `CountersExpire`, `ResetNotEarly`, `NoResetInWindow`, `LimitInv` |
| `life_cycle` | 2 instances, 3 starts, 2 requests, 2 migrations, 3 environments, all faults | `ServesOnlyMigrated`, `ServingInv`, `DropsAccounted`, `SignalEnds`, `DeafEnds` |
| `store_calls` | 3 calls, 1 path in 2 spellings, 2 chunks, local and S3, all faults, symmetric | `LastWriteWins`, `TornExplained`, `StorageInv` |
| `pipeline` | 2 requests of the kinds in `Mixes`, 1 address, limit 1, an hour of 2, TTL and clock of 1, 1 connection; Redis down, the database failing, clients leaving, panics, statements, storage calls and bodies that do not come to an end | `EffectsWithinLimit`, `ObservedAsAnswered`, `ToldIsFound`, `PipelineInv`, and the liveness property `EndsUnlessStuck` |
| `gen` | 3 runs, 11 words, every list of up to 4 arguments, trees of 3 and 2 files, all faults, symmetric | `OptionsMean`, `DoneIsWhole`, `NeverBuildsOn`, `GenInv` |

Why the bounds are enough to be of use. A violation of "at most once" takes two
attempts; a disagreement of replays takes two that save and two that replay. The
limiter's off-by-ones show at limit 1 with two requests, and a third lets one be
lost or resent; three ticks let the hour turn while a request is served. Two
instances let one wait for, or take over from, the other; a third start lets a
dead one come back to a dirty schema; two migrations let one be complete and one
half done. A last write over what an earlier call left, read by a download, is
three calls, and two chunks let a file be shorter than another and be torn in
its middle. `MaxTime` and `MaxStarts` are the only bounds in guards; `Chunks` bounds the
length of a file. In the chain one connection makes every second request wait, a
limit of 1 makes the second be refused in the same hour and, with Redis down, be
let through; `Mixes` pairs a keyed todo with its retry, with the reuse of its
key and with a query for it, and each other route with one that shares something
with it. Four arguments are a name, two flags and a value in every order; three
runs are one that fails, one that comes after it, and one that overlaps either.
Symmetry is used in runs without liveness properties only. The
safety results are also proved without any of these bounds on size (section 5).

Deadlock is checked in every run but `pipeline`: the end of a behaviour is an
explicit action (`Ended`, `AllEnded`, `AllOver`), enabled only when every attempt,
call or process is over (TLC takes a body that does not come as one that still
may). In `pipeline` the system really can stop: a request whose statement or
storage call hangs, and a client that does not leave. `EndsUnlessStuck` says that,
these, a body that does not come and a pool full of statements that hang aside
(`Stuck`), it does not.

### Where the code and its comments disagree

Each of these runs checks one sentence of the code's own comments, and TLC
returns a behaviour of the code that breaks it.

| Run | Sentence | Behaviour |
|---|---|---|
| `idem_overlap` | "the request is NOT processed again" (idempotency.go:8-9) | two attempts on one key are open together, both miss, both store; no fault is needed |
| `idem_failopen` | "this middleware FAILS CLOSED" (17-18) | `Get` fails and the handler runs on a key with a live row |
| `idem_expiry` | "store the response ... for 48 hours" (6-7) | an expired row is invisible to `Get` and still occupies the key for `Save`: the key is never protected again |
| `idem_errors` | "we return the cached response" (8-9) | an error given to `c.Error` is written after the capture, so a retry gets another answer |
| `life_storage` | "STORAGE_PROVIDER picks the default" (config.go:127-129) | `Build` passes `Options["s3"]` to whichever provider is configured |

`idem_failopen` and `idem_overlap` switch on only the fault they are about, so the
counterexample has no other cause. These further ones were met while modelling. They
are in the models, and the properties of the passing runs name them where they need to;
they have no run of their own:

* "the request is NOT processed again" (idempotency.go:8-9) is not kept for a key
  that the table does not hold (more than 255 characters, or no UTF-8): every Save
  fails, the error is logged at 123-128, and the key protects nothing.
* "that's a bug in the client" (10-11) is not so for a body that broke off: the error
  of `io.ReadAll` is dropped (93), the part that came is handled and saved, and the
  complete retry is refused. `RefusedOnlyOnReuse` names the case, `Cut`.
* "store the response against the key for 48 hours" (6-7) is not kept for a client
  that leaves after its todo is stored: its context is done and `Save` fails with it.
* "old counters expire naturally" (ratelimit.go:7) is not kept for a counter whose
  EXPIRE failed (57), whose instance died before it, or whose first INCR lost its
  reply: no later request sends another (`leaked`, in `CountersExpire`).
* "Upload writes the bytes" (provider.go:43-44) is not so where the deferred Close
  fails (local.go:88): success is reported for bytes that are not there (`short`).
* "HTTP middleware that runs for every request" (requestid.go:1) does not run for a
  path that gin redirects (wire.go:81): no id, no line, no count (`Redirect`).
* "name must start with a letter" (cmd/gen/main.go:123) is not enforced for a digit
  outside ASCII: line 122 takes the first byte for a rune, and the first byte of U+0663
  is the code of a letter. The identifiers generated from it do not compile.

Two hazards are behaviour that the comments describe, and no property is about them: a
500 that the upload handler writes itself is captured and replayed for 48 hours
although the backend has recovered, and a key is bound to a body but not to a
method and path, so that the same bytes sent to the other endpoint get the first
one's answer. idempotency.go:6-11 promises both as it stands.

## 4. Fairness

Safety runs use `Spec`. Three specifications add fairness:

* `Idempotency!FairSpec`: weak fairness of `Serve(r)`, the server's own steps for an
  attempt whose body it has. A goroutine is scheduled, and each database or storage
  call returns an answer or an error. Clients, faults and the clock get none. The
  server has no `ReadTimeout` (server.go:30-36), so a body need never come:
  `EveryAttemptEnds` speaks of attempts from `Receive` on. Nor does the code limit a
  statement or a storage call; one that hangs is outside this assumption, and
  `Pipeline` models it.
* `Lifecycle!FairSpec`: weak fairness of the main goroutine, of the listener's
  goroutine and of the clock. Nothing is assumed of requests: a handler may hang for
  ever (the server sets no write timeout), and `SignalEnds` holds all the same
  because Shutdown's ten seconds pass.
* `Pipeline!FairSpec`: weak fairness of `Serve(r)`, as for `Idempotency`. It gives
  no fairness against the others to a request that waits for a connection: while a
  connection is free, one of those that wait gets it, and those that have one end.
  Nothing is assumed of a body, and nothing of a statement or a storage call that
  hangs; `Stuck` names who may wait for ever because of them, which is the most that
  a code without timeouts can promise. Redis commands do end: go-redis has timeouts
  by default. Writing an answer is taken not to block: answers are small.

## 5. Proofs

All theorems hold for every value of the constants that the named assumption of the
module allows (`IdempotencyAssumption`, `RateLimitAssumption`,
`LifecycleAssumption`, `StorageAssumption`, `PipelineAssumption`, `GenAssumption`):
any number of attempts, keys, bodies, addresses, instances, calls, connections, runs
of the generator and files in a tree, any limit including zero and negative ones,
any subset of the faults. What the assumptions ask beyond types: an absent key is no
key, `Nobody`/`NoInstance` is none of the members, the sets of requests of the rate
limiter are finite (it counts them), an upload is never refused by Postgres, and of
the generator's words, that flags are spelt with a dash first, that no
`--plural=value` is one of the flags without a value, and that the empty word has no
characters.

* `IdempotencyProofs`. `ProtectionInv` strengthens `AtMostOnceUndisturbed`, which is
  not inductive: on a key that has not been disturbed, an attempt that is open is
  alone (`Alone`), a miss it has seen stays true until its handler has run
  (`MissHolds`), and an effect is on its way to the table or has its row
  (`EffectKept`). `ReplayInv` strengthens `ReplaySound` and `ReplaysAgree`: a row is
  what its attempt captured and, unless that attempt called `c.Error`, what it
  answers (`RowsCaptured`); the key is unique (`PrimaryKey`); a replayed response is
  a row of the attempt's key and body (`ReplayFromRow`). `RowsAreForever` says that
  no step changes or deletes a row. `Implementation` uses both: every step of
  `Idempotency` is a step of `OnceOnly` or a stutter, with the table less its
  expiries as the memo.
* `AnswerProofs`. `SameAnswer` and `RefusedOnlyOnReuse` need to know what is behind
  an answer that is no replay. `AnswerInv`: on an undisturbed key the whole body was
  read (`BodyKept`), an attempt that missed still finds the key free when it saves
  (`FreeUntilSaved`, from `Alone`), what was given to `c.Error` is answered as
  ErrorHandler answers (`ErrorsOuter`), any other answer is that of a row of the key
  (`AnswerHasRow`), and a row of another body has a sender (`ReuseWitnessed`). Two
  answers then agree because the key has one row (`PrimaryKey`). The module also
  says when the four sentences of idempotency.go that section 3 refutes are true.
  Each theorem excludes the fault that the run is about and as little else as its
  sentence depends on: `SavedIsLiveUntilExpiry` only that a time to live passes
  (every other fault is left in); `FailsClosedIfGetWorks` only that Get fails or is
  cancelled; `OnceIfClientsTakeTurns` overlapping clients, faults and expiry;
  `CachedIfNoErrors` in addition a service that calls `c.Error`; both ask that keys
  fit the table, as Save fails under the others without any fault.
  `RefusedOnlyOnReuse` is proved of every environment. The steps are that nothing
  has expired (`Clocked`), that no other key is ever disturbed
  (`OnlyUnfitDisturbed`) and that no error answer exists (`NoErrors`); the rest is
  `OnceOnAnUndisturbedKey` and `AnswersAgree`.
* `RateLimitProofs`. `LimitInv`: a TTL never ends inside its hour
  (`ExpiryAfterWindow`), so within the hour a counter is at least every count it has
  given out (`CountsBounded`), so no two requests of an hour have the same count
  (`CountsDistinct`). `CapPerWindow` follows, since at most `Limit` different counts
  are within the limit. `NoEarlyReset`, `TTLAccounted` and `ResetIsHonest` are
  proved beside it. `RefusalEarned` counts the other way: for every `n` up to a
  counter, the requests with a count of at most `n` and the replies that were lost
  are together at least `n` (`CounterExplained`), and the same holds below a
  request's own count even after its hour (`TicketsExplained`). That is a fact about
  cardinalities and not about two requests, as `LimitInv` is. Two sentences are
  proved under the condition they need: nobody is refused before `Limit` others have
  been counted unless replies of `INCR` can get lost (`RefusedOnlyAboveLimit`; an
  unreachable Redis, a lost `EXPIRE` and crashes are left in), and every counter
  gets its TTL if nothing fails (`CountersExpireUnlessFaults`).
* `LifecycleProofs`. `SchemaInv`: the lock is held by the instance inside `Up` and
  by nobody else, a schema that is not dirty has all the tables of its version, and
  whoever is past `Migrate` finds it complete. A started instance can neither spoil
  it (nothing is pending) nor see it half done (dirty is an error). `ServingInv`
  adds that requests are active only where somebody serves; `NoSilentDrop` is an
  action property from it. What wire.go:62 does to the storage configuration is
  settled for every environment from one invariant, that whoever has passed
  `Resolve` was built by a registered factory from the S3 options
  (`BuiltWhenServing`): no instance serves with R2 and none is ever given a local
  path or base URL (`NeverR2NorLocal`), while S3 gets what was configured, and so
  does the local provider if nothing was configured for it and no S3 bucket is
  (`ConfiguredUnlessLocal`: exactly what `life_storage` needs for its
  counterexample). `DropsOnlyOutOfTime` is "Let in-flight requests complete (up to a
  timeout)" (server.go:5) as far as it is true: it leaves out crashes and a listener
  that fails after it was open, keeps every other fault, and names the one window in
  which a signal still drops requests, before `signal.Notify`. It needs that nothing
  is active behind a listener that never opened (`FailedIdle`).
* `StorageProofs`. `StorageInv`: what `before` says stays true (`History`), a file
  belongs to one key whoever has it open (`FilesOfKey`), a write on whose key no
  other has begun since it did is what the key holds, as far as it has come
  (`LatestStands`), and a download that began after it has read a prefix of it
  (`ReadsLatest`). `LastWriteWins` is kept by each step because the last write
  before a download that has not ended is the latest write of its key.
  `TornExplained` has an invariant of its own, `TornInv`, about keys whose uploads
  have all succeeded, their Close included, one after the other (`Orderly`): what
  the one that is open has copied stands (`CopyStands`), a file nobody is writing is
  one upload's (`FilesWhole`), and a download beside which no upload has run has
  read a prefix of such a file (`ReadsWhole`). Overlapping and failing are never
  undone, so an orderly key was always orderly. For S3, `ObjectsWhole` needs no
  condition.
* `PipelineProofs`. First that the chain implements its parts: every step of
  `Pipeline` is a step of `RateLimit` or a stutter (`LimiterStep`), and the same of
  `Idempotency` (`IdemStep`). So every theorem of `RateLimitProofs` and
  `IdempotencyProofs` holds in the chain, and is used there by name; their inductive
  invariants together are `PartsInv`. Then `PipelineInv`: only mutations that the
  limiter let through are in the middleware (`BehindLimiter`; what the limiter has
  decided it does not take back, `PassedStays`), ids that are asked for were stored
  (`TargetsStored`), and log, counters and gauge are what the requests have done.
  `EffectsWithinLimit` follows from `BehindLimiter` and `LimitInv`: requests with an
  effect were admitted, and admitted requests of an hour have different counts up to
  the limit. `KeepsPromiseBehind` composes two refinements: the whole chain
  implements `OnceOnly`. `AnswersBehind` brings over what `AnswerProofs` says of the
  answers.
* `GenProofs`. `DoneIsWhole` is not inductive: `GenInv` adds where a run is in its
  tree (`Progress`), that a file lies in its writer's module (`Signed`), that no run
  builds where one had finished before it (`FirstToFinish`), and that a run which
  overlaps none has written exactly the files it has come past (`AsFarAsWritten`),
  since what it found was nothing (`OwnFiles`). A run that touches the tree has a
  name that `validateName` accepts (`Named`).
* `GenArgsProofs`. `ArgumentsMean`: for every list of arguments `Options`, which is
  the loop, is `Meaning`, which says of each position what it is without going
  through the list in order. The invariant of the loop, `Reads`, relates what it
  knows after `i` arguments to the first `i` positions; `OneArgument` is its body.
  `AllRead` needs induction over `i`, and the induction theorems of the library
  cannot be instantiated here; the proof takes the least `i` for which `Reads` fails
  instead (`WFMin`, since `<` is well-founded on `Nat`) and shows that there is
  none. That the loop is a recursive function, and which of two flags counts, is the
  same kind of argument (`EarliestIs`, `LatestIs`). From this follow
  `MeaningThroughout`, `Typing`, and `EitherOrder`, which is what main.go:52-54
  promises: arguments mean the same in every order, provided that none is a
  `--plural` with its value behind it and that `--plural=` is not given two values
  (the later one counts) and that no argument is empty (an empty one may stand
  before the name but not after it).

Liveness under fairness is beyond the prover, so `EveryAttemptEnds`, `SignalEnds`,
`DeafEnds` and `EndsUnlessStuck` are only model-checked. The half of each that
fairness has no part in is proved: that whoever is served comes nearer to its end.
Each of the four theorems gives a measure (`Left`) in the natural numbers that every
step of the server for a request, or of the main goroutine for its process, lowers
and that no other step raises:

* `AttemptsGoForward`: at most five steps from the body to an answer, on every way
  through the middleware.
* `RequestsGoForward`: at most `Retries` + 3 steps to a decision; the client
  library's retries are the only way round (`TriesBounded`).
* `InstancesGoForward`: at most 3 * `Migrations` + 13 steps from `load` to the end.
  `Up` is a loop over a table that other instances write; while the lock is held they
  do not (`LockHeld`), so the loop ends after what was pending.
* `ChainGoesForward`: the sum of the first two and of the stage in the chain, twice,
  and one more while the request has no connection. Waiting for one costs a step
  before each statement and is never begun again for the same statement.

What is left to TLC is that the server's step is enabled until the end, or that the
request is stuck, which is `ENABLED`, and that fairness then takes it.

`ProtectionInv`, `ReplayInv`, `LimitInv`, `ServingInv`, `StorageInv`, `PipelineInv` and
`GenInv` are also invariants of the runs, which is where they were found;
`AnswerInv`, `RefusalInv` and `TornInv` are built on these and stand in the proof
modules only. Every property of a passing run but the four above is a theorem, and so
is what remains true of each sentence that a violation run refutes.

## 6. What is not modelled, and why

* The consumer id of the idempotency table: the code uses the constant `"anon"`.
* The text of responses, validation messages and log lines, the durations and paths
  in metrics, API documentation: formatting. `apierror` codes count only as far as a
  response can be told from another.
* Memory: `io.ReadAll` reads a body whole before the upload handler's limit of 10 MB
  is in place.
* Clock skew between instances, Postgres and Redis; a restart of Redis that loses
  counters.
* `SignedURL` and `Name` of the providers: they change no state.
* The metadata that uploads return. Two things about it were seen in the code while
  modelling: R2's metadata name `"s3"` as the provider (s3.go:138), and S3 returns
  the size it was given and not the one written.
* The payment options in the configuration: nothing reads them.
* The number of idle connections and their age: a connection that is opened anew
  serves a statement as well as one that was kept.
* A statement that hangs while the program starts: in `Lifecycle` each statement of
  `Migrate` returns or fails.
* Two processes, or two goroutines, inside one `Write` of a file at the same moment.
* What text a template of `cmd/gen` becomes, and the snippet it prints.
* The value of the request id: it is copied, and nothing depends on it.

## 7. Plan

The order so far was: the middleware whose mistakes cost money (`Idempotency`),
then what guards it (`RateLimit`), then what surrounds both (`Lifecycle`), then
what the upload route stands on (`Storage`), then how the parts act together and
share the pool (`Pipeline`), and last the tool that writes code (`Gen`). Left:

1. `BlobStore`: an atomic register per key as the abstract specification of a
   provider; S3 implements it, and the local provider does under the condition
   that `TornExplained` names. A `PutObject` that is sent again takes effect more
   than once while its call is open, so a write of the register must be allowed to.
2. A window of its own: a signal between the start of the listener and
   `signal.Notify` kills the process and the requests it has accepted, against
   "Let in-flight requests complete" (server.go:5).
3. The whole seconds of `Retry-After`, which the last second of an hour turns
   into 0.
