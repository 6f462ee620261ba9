---- MODULE Lifecycle ----
(***************************************************************************)
(* The life of the API's processes: cmd/api/main.go loads the environment, *)
(* app.Build connects, migrates and wires, server.Run serves until a       *)
(* signal or a listener error, and the process exits.  Instances are       *)
(* started, stopped and restarted side by side; they share the database,   *)
(* its schema and the lock that golang-migrate takes there.                *)
(***************************************************************************)
EXTENDS Integers, FiniteSets

CONSTANTS
  Instances,   \* processes of a deployment
  NoInstance,  \* nobody
  Requests,    \* HTTP requests
  Migrations,  \* how many migrations the binary carries
  Envs,        \* environments that an instance may be started with
  Grace,       \* the ten seconds of Shutdown, in ticks
  MaxStarts,   \* BOUND: how many processes are started in all
  Faults       \* what may go wrong

FaultKinds == {"db", "redis", "disk", "port", "accept", "crash", "signal"}

(* An environment: the variables that are set and not empty, and            *)
(* STORAGE_PROVIDER.  "DB" stands for the six variables that Load requires; *)
(* the two of the local provider are among them if they differ from what it *)
(* takes by default.                                                        *)
EnvVars ==
  {"DB", "BAD_LIMIT", "STORAGE_LOCAL_PATH", "STORAGE_LOCAL_BASE_URL", "STORAGE_S3_BUCKET",
   "STORAGE_S3_REGION", "STORAGE_R2_ACCOUNT_ID", "STORAGE_R2_BUCKET"}

Environment == [set: SUBSET EnvVars, provider: STRING]

ASSUME LifecycleAssumption ==
  /\ NoInstance \notin Instances
  /\ Migrations \in Nat \ {0}
  /\ Envs \subseteq Environment
  /\ Grace \in Nat
  /\ MaxStarts \in Nat
  /\ Faults \subseteq FaultKinds

VARIABLES
  env,      \* env[i]: the environment of an instance; fixed
  step,     \* where each instance's main goroutine is
  starts,   \* how many processes have been started
  backend,  \* the storage provider an instance has built
  version,  \* schema_migrations.version; 0 before any
  dirty,    \* schema_migrations.dirty
  tables,   \* how many migrations' tables exist
  lock,     \* who holds golang-migrate's advisory lock
  listener, \* the goroutine in ListenAndServe, and its socket
  errCh,    \* instances with an error in errCh
  sigCh,    \* instances with a signal in sigCh
  grace,    \* what is left of Shutdown's ten seconds
  exit,     \* how the instance's process ended
  at,       \* the instance that accepted a request
  req       \* how far each request is

schema == <<version, dirty, tables, lock>>
server == <<listener, errCh, sigCh, grace>>
vars == <<env, step, starts, backend, schema, server, exit, at, req>>

----------------------------------------------------------------------------
(* Configuration: config.Load and the storage registry.                     *)

(* Load fails on a limit that is not a number, and panics on a required     *)
(* variable that is not set: the process ends either way.                   *)
Loads(e) == "DB" \in e.set /\ "BAD_LIMIT" \notin e.set

Registered == {"s3", "local", "r2"}

(* The variables that fill a provider's options, the one without which they *)
(* are not loaded, and the ones its factory does not do without.            *)
Variables ==
  [s3    |-> {"STORAGE_S3_BUCKET", "STORAGE_S3_REGION"},
   r2    |-> {"STORAGE_R2_ACCOUNT_ID", "STORAGE_R2_BUCKET"},
   local |-> {"STORAGE_LOCAL_PATH", "STORAGE_LOCAL_BASE_URL"}]

Trigger  == [s3 |-> {"STORAGE_S3_BUCKET"}, r2 |-> {"STORAGE_R2_ACCOUNT_ID"}, local |-> {}]
Required == [s3 |-> Variables["s3"], r2 |-> Variables["r2"], local |-> {}]

(* buildStorageOptions.  A provider that is not in the map has no options.  *)
OptionsOf(e, provider) ==
  IF provider \in Registered /\ Trigger[provider] \subseteq e.set
    THEN e.set \intersect Variables[provider]
    ELSE {}

(* Build passes Options["s3"], whichever provider is configured.            *)
Passed(e) == OptionsOf(e, "s3")

(* Resolve knows the provider, and its factory takes what it is given.      *)
Resolves(e) == e.provider \in Registered /\ Required[e.provider] \subseteq Passed(e)

Backends == [name: Registered \union {"none"}, options: SUBSET EnvVars]

NoBackend == [name |-> "none", options |-> {}]

----------------------------------------------------------------------------
Starting == {"load", "connect", "driver", "lock", "apply", "ddl", "clean", "redis", "storage"}
Serving  == {"run", "notify", "select", "drain"}
Steps    == {"down"} \union Starting \union Serving

Listeners == {"none", "starting", "open", "closed", "failed"}

(* How a process ends: an error of Load or Build, or of the listener;       *)
(* Shutdown's return, without or with its time up; or not of its own will.  *)
Exits == {"failed", "error", "clean", "timeout", "unhandled", "crashed"}

Active(i) == {q \in Requests : at[q] = i /\ req[q] = "active"}

Goto(i, s) == step' = [step EXCEPT ![i] = s]

Init ==
  /\ env \in [Instances -> Envs]
  /\ step = [i \in Instances |-> "down"]
  /\ starts = 0
  /\ backend = [i \in Instances |-> NoBackend]
  /\ version = 0 /\ dirty = FALSE /\ tables = 0 /\ lock = NoInstance
  /\ listener = [i \in Instances |-> "none"]
  /\ errCh = {} /\ sigCh = {}
  /\ grace = [i \in Instances |-> 0]
  /\ exit = [i \in Instances |-> "none"]
  /\ at = [q \in Requests |-> NoInstance]
  /\ req = [q \in Requests |-> "idle"]

(* The process of instance i ends: its requests are dropped, its socket is  *)
(* closed, and its database session ends with its lock.                     *)
Exit(i, how) ==
  /\ Goto(i, "down")
  /\ exit' = [exit EXCEPT ![i] = how]
  /\ backend' = [backend EXCEPT ![i] = NoBackend]
  /\ listener' = [listener EXCEPT ![i] = "none"]
  /\ errCh' = errCh \ {i}
  /\ sigCh' = sigCh \ {i}
  /\ grace' = [grace EXCEPT ![i] = 0]
  /\ lock' = IF lock = i THEN NoInstance ELSE lock
  /\ req' = [q \in Requests |-> IF q \in Active(i) THEN "dropped" ELSE req[q]]
  /\ UNCHANGED <<env, starts, version, dirty, tables, at>>

(* log.Fatalf on an error of Load or Build.                                 *)
Fail(i) == Exit(i, "failed")

Start(i) ==
  /\ step[i] = "down"
  /\ starts < MaxStarts
  /\ starts' = starts + 1
  /\ exit' = [exit EXCEPT ![i] = "none"]
  /\ Goto(i, "load")
  /\ UNCHANGED <<env, backend, schema, server, at, req>>

Load(i) ==
  /\ step[i] = "load"
  /\ IF Loads(env[i])
       THEN Goto(i, "connect") /\ UNCHANGED <<env, starts, backend, schema, server, exit, at, req>>
       ELSE Fail(i)

(* postgres.New: Connect and Ping.                                          *)
Connect(i) ==
  /\ step[i] = "connect"
  /\ \/ Goto(i, "driver") /\ UNCHANGED <<env, starts, backend, schema, server, exit, at, req>>
     \/ "db" \in Faults /\ Fail(i)

(* Migrate: WithInstance creates schema_migrations under the lock, and      *)
(* Version reads it.                                                        *)
Driver(i) ==
  /\ step[i] = "driver"
  /\ \/ /\ lock = NoInstance
        /\ Goto(i, "lock")
        /\ UNCHANGED <<env, starts, backend, schema, server, exit, at, req>>
     \/ "db" \in Faults /\ Fail(i)

(* What Migrate makes of an error of Up other than ErrNoChange.             *)
AfterUpErrorIgnored(i) ==        \* mutant: the error is only logged
  /\ Goto(i, "redis")
  /\ lock' = IF lock = i THEN NoInstance ELSE lock
  /\ UNCHANGED <<env, starts, backend, version, dirty, tables, server, exit, at, req>>

AfterUpError(i) == Fail(i)

(* m.Up takes the lock, or gives up waiting for it; a dirty version is an   *)
(* error.                                                                   *)
Lock(i) ==
  /\ step[i] = "lock"
  /\ \/ /\ lock = NoInstance /\ ~ dirty
        /\ lock' = i
        /\ Goto(i, "apply")
        /\ UNCHANGED <<env, starts, backend, version, dirty, tables, server, exit, at, req>>
     \/ (lock # NoInstance \/ dirty \/ "db" \in Faults) /\ AfterUpError(i)

(* Up marks the next migration dirty, or has none left and unlocks.         *)
PendingPastEnd == version <= Migrations      \* mutant: one step too many

Pending == version < Migrations

Apply(i) ==
  /\ step[i] = "apply"
  /\ IF Pending
       THEN /\ \/ /\ version' = version + 1 /\ dirty' = TRUE
                  /\ Goto(i, "ddl")
                  /\ UNCHANGED <<env, starts, backend, tables, lock, server, exit, at, req>>
               \/ "db" \in Faults /\ AfterUpError(i)
       ELSE /\ lock' = NoInstance
            /\ Goto(i, "redis")
            /\ UNCHANGED <<env, starts, backend, version, dirty, tables, server, exit, at, req>>

(* The migration's statements, as one.                                      *)
Migrate(i) ==
  /\ step[i] = "ddl"
  /\ \/ /\ tables' = version
        /\ Goto(i, "clean")
        /\ UNCHANGED <<env, starts, backend, version, dirty, lock, server, exit, at, req>>
     \/ "db" \in Faults /\ AfterUpError(i)

(* Up marks it clean.                                                       *)
MarkClean(i) ==
  /\ step[i] = "clean"
  /\ \/ /\ dirty' = FALSE
        /\ Goto(i, "apply")
        /\ UNCHANGED <<env, starts, backend, version, tables, lock, server, exit, at, req>>
     \/ "db" \in Faults /\ AfterUpError(i)

(* platformredis.New: Ping.                                                 *)
Redis(i) ==
  /\ step[i] = "redis"
  /\ \/ Goto(i, "storage") /\ UNCHANGED <<env, starts, backend, schema, server, exit, at, req>>
     \/ "redis" \in Faults /\ Fail(i)

(* Resolve runs the configured factory; local.New creates its folder.       *)
Storage(i) ==
  /\ step[i] = "storage"
  /\ \/ /\ Resolves(env[i])
        /\ backend' = [backend EXCEPT ![i] = [name |-> env[i].provider, options |-> Passed(env[i])]]
        /\ Goto(i, "run")
        /\ UNCHANGED <<env, starts, schema, server, exit, at, req>>
     \/ /\ Resolves(env[i]) => env[i].provider = "local" /\ "disk" \in Faults
        /\ Fail(i)

----------------------------------------------------------------------------
(* server.Run.                                                              *)

(* Run starts the goroutine that listens ...                                *)
Run(i) ==
  /\ step[i] = "run"
  /\ listener' = [listener EXCEPT ![i] = "starting"]
  /\ Goto(i, "notify")
  /\ UNCHANGED <<env, starts, backend, schema, errCh, sigCh, grace, exit, at, req>>

(* ... and only then asks for signals.                                      *)
Notify(i) ==
  /\ step[i] = "notify"
  /\ Goto(i, "select")
  /\ UNCHANGED <<env, starts, backend, schema, server, exit, at, req>>

(* An error of ListenAndServe that is not ErrServerClosed goes to errCh.    *)
ReportDropped(i) == errCh' = errCh       \* mutant: the goroutine only logs it

Report(i) == errCh' = errCh \union {i}

(* ListenAndServe binds its address; once Shutdown was called it returns    *)
(* ErrServerClosed instead.                                                 *)
Listen(i) ==
  /\ listener[i] = "starting"
  /\ \/ /\ step[i] # "drain"
        /\ listener' = [listener EXCEPT ![i] = "open"]
        /\ UNCHANGED errCh
     \/ /\ step[i] = "drain"
        /\ listener' = [listener EXCEPT ![i] = "closed"]
        /\ UNCHANGED errCh
     \/ /\ step[i] # "drain" /\ "port" \in Faults
        /\ listener' = [listener EXCEPT ![i] = "failed"]
        /\ Report(i)
  /\ UNCHANGED <<env, step, starts, backend, schema, sigCh, grace, exit, at, req>>

(* Accept fails for good; the requests that were accepted go on.            *)
AcceptFails(i) ==
  /\ "accept" \in Faults
  /\ listener[i] = "open"
  /\ listener' = [listener EXCEPT ![i] = "failed"]
  /\ Report(i)
  /\ UNCHANGED <<env, step, starts, backend, schema, sigCh, grace, exit, at, req>>

(* The select takes either ready case: return the error ...                 *)
ReceiveError(i) ==
  /\ step[i] = "select" /\ i \in errCh
  /\ Exit(i, "error")

(* ... or call Shutdown, which closes the socket, with its timeout running. *)
ReceiveSignal(i) ==
  /\ step[i] = "select" /\ i \in sigCh
  /\ sigCh' = sigCh \ {i}
  /\ grace' = [grace EXCEPT ![i] = Grace]
  /\ listener' = [listener EXCEPT ![i] = IF @ = "open" THEN "closed" ELSE @]
  /\ Goto(i, "drain")
  /\ UNCHANGED <<env, starts, backend, schema, errCh, exit, at, req>>

(* Shutdown returns when no request is active, and main with it.            *)
QuietAtOnce(i) == TRUE           \* mutant: Close instead of Shutdown

Quiet(i) == Active(i) = {}

Drained(i) ==
  /\ step[i] = "drain"
  /\ Quiet(i)
  /\ Exit(i, "clean")

(* Or when its context is done; main then exits with log.Fatalf.            *)
ExpiredNever(i) == FALSE         \* mutant: Shutdown(context.Background())

Expired(i) == grace[i] = 0

DrainTimesOut(i) ==
  /\ step[i] = "drain"
  /\ Expired(i)
  /\ Exit(i, "timeout")

----------------------------------------------------------------------------
(* The environment.                                                         *)

(* SIGINT or SIGTERM.  Before Notify it has its default action; afterwards  *)
(* it goes into sigCh, where a second one finds no room.                    *)
Handled(i) == step[i] \in {"select", "drain"}

Signal(i) ==
  /\ "signal" \in Faults
  /\ step[i] # "down"
  /\ IF Handled(i)
       THEN /\ sigCh' = sigCh \union {i}
            /\ UNCHANGED <<env, step, starts, backend, schema, listener, errCh, grace, exit, at, req>>
       ELSE Exit(i, "unhandled")

Crash(i) ==
  /\ "crash" \in Faults
  /\ step[i] # "down"
  /\ Exit(i, "crashed")

Accept(q, i) ==
  /\ req[q] = "idle"
  /\ listener[i] = "open"
  /\ req' = [req EXCEPT ![q] = "active"]
  /\ at' = [at EXCEPT ![q] = i]
  /\ UNCHANGED <<env, step, starts, backend, schema, server, exit>>

Finish(q) ==
  /\ req[q] = "active"
  /\ req' = [req EXCEPT ![q] = "done"]
  /\ UNCHANGED <<env, step, starts, backend, schema, server, exit, at>>

(* Time passes for the instances that drain.                                *)
Tick ==
  /\ \E i \in Instances : step[i] = "drain" /\ grace[i] > 0
  /\ grace' = [i \in Instances |-> IF grace[i] > 0 THEN grace[i] - 1 ELSE 0]
  /\ UNCHANGED <<env, step, starts, backend, schema, listener, errCh, sigCh, exit, at, req>>

(* All processes that the bound allows have ended.                          *)
Ended ==
  /\ starts = MaxStarts
  /\ \A i \in Instances : step[i] = "down"
  /\ UNCHANGED vars

(* What the main goroutine does.                                            *)
Main(i) ==
  \/ Load(i) \/ Connect(i) \/ Driver(i) \/ Lock(i) \/ Apply(i) \/ Migrate(i) \/ MarkClean(i)
  \/ Redis(i) \/ Storage(i) \/ Run(i) \/ Notify(i)
  \/ ReceiveError(i) \/ ReceiveSignal(i) \/ Drained(i) \/ DrainTimesOut(i)

Next ==
  \/ \E i \in Instances : Start(i) \/ Main(i) \/ Listen(i) \/ AcceptFails(i) \/ Signal(i) \/ Crash(i)
  \/ \E q \in Requests : Finish(q) \/ \E i \in Instances : Accept(q, i)
  \/ Tick
  \/ Ended

Spec == Init /\ [][Next]_vars

(* The goroutines of a process are scheduled and time passes.  Nothing is   *)
(* assumed of requests, which may hang: the server has no write timeout.    *)
FairSpec ==
  /\ Spec
  /\ \A i \in Instances : WF_vars(Main(i)) /\ WF_vars(Listen(i))
  /\ WF_vars(Tick)

----------------------------------------------------------------------------
(* Properties.                                                              *)

(* Every variable holds values of its type.                                 *)
TypeOK ==
  /\ env \in [Instances -> Envs]
  /\ step \in [Instances -> Steps]
  /\ starts \in Nat
  /\ backend \in [Instances -> Backends]
  /\ version \in 0..Migrations /\ dirty \in BOOLEAN /\ tables \in 0..Migrations
  /\ lock \in Instances \union {NoInstance}
  /\ listener \in [Instances -> Listeners]
  /\ errCh \subseteq Instances /\ sigCh \subseteq Instances
  /\ grace \in [Instances -> Nat]
  /\ exit \in [Instances -> Exits \union {"none"}]
  /\ at \in [Requests -> Instances \union {NoInstance}]
  /\ req \in [Requests -> {"idle", "active", "done", "dropped"}]

Migrated == version = Migrations /\ ~ dirty /\ tables = Migrations

(* Whatever other instances start, crash or fail half way through, an       *)
(* instance that serves finds every migration applied and none dirty.       *)
ServesOnlyMigrated ==
  \A i \in Instances : step[i] \in Serving => Migrated

DropAccounted(q) ==
  LET i == at[q] IN
    \/ exit'[i] = "timeout" /\ step[i] = "drain" /\ grace[i] = 0
    \/ exit'[i] = "unhandled" /\ step[i] = "notify"
    \/ exit'[i] \in {"crashed", "error"}

(* "Let in-flight requests complete (up to a timeout)" (server.go:5): a     *)
(* request that was accepted is dropped only when Shutdown's time is up,    *)
(* when the process dies of a signal that came before Notify or of a crash, *)
(* or when the listener failed, which Run does not drain after.             *)
DropsAccounted ==
  [][\A q \in Requests : req[q] = "active" /\ req'[q] = "dropped" => DropAccounted(q)]_vars

(* "Run blocks until the process receives a shutdown signal or the server   *)
(* errors" (server.go:12-13): a signal that was taken ends the process,     *)
(* however long its requests hang.                                          *)
SignalEnds ==
  \A i \in Instances : (i \in sigCh \/ step[i] = "drain") ~> step[i] = "down"

(* The same of a listener that fails: no process stays behind deaf.         *)
DeafEnds ==
  \A i \in Instances : listener[i] = "failed" ~> step[i] = "down"

(* "STORAGE_PROVIDER picks the default" (config.go:128): an instance serves *)
(* with the provider configured, built from the options loaded for it.      *)
StorageAsConfigured ==
  \A i \in Instances : step[i] \in Serving =>
    backend[i] = [name |-> env[i].provider, options |-> OptionsOf(env[i], env[i].provider)]

----------------------------------------------------------------------------
(* The inductive invariants behind them.                                    *)

Holding == {"apply", "ddl", "clean"}
Past    == {"redis", "storage"} \union Serving

(* The lock is held by the instance inside Up, and by nobody else.          *)
LockHeld ==
  /\ \A i \in Instances : lock = i <=> step[i] \in Holding
  /\ dirty => \A i \in Instances : step[i] # "apply"

(* Where a migration is, by the instance that runs it.                      *)
MigrationAt ==
  /\ ~ dirty => tables = version
  /\ \A i \in Instances :
       /\ step[i] = "ddl" => dirty
       /\ step[i] = "clean" => dirty /\ tables = version
       /\ step[i] \in Past => Migrated

SchemaInv == TypeOK /\ LockHeld /\ MigrationAt

(* A request is active only on an instance that serves.                     *)
ActiveServed ==
  /\ \A i \in Instances : listener[i] # "none" => step[i] \in Serving \ {"run"}
  /\ \A q \in Requests : req[q] = "active" => at[q] \in Instances /\ step[at[q]] \in Serving \ {"run"}

ServingInv == SchemaInv /\ ActiveServed
====
