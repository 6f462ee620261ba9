---- MODULE LifecycleProofs ----
(***************************************************************************)
(* What an instance of a deployment may rely on, proved for every number   *)
(* of instances, requests, migrations and restarts, every environment, and *)
(* every set of faults.                                                    *)
(***************************************************************************)
EXTENDS Lifecycle, TLAPS

(* An instance that has built no storage has an empty one.                  *)
LEMMA NoBackendType == NoBackend \in Backends
BY DEF NoBackend, Backends

(* Initially every variable has its type.                                   *)
LEMMA TypeInit == Init => TypeOK
<1> SUFFICES ASSUME Init PROVE TypeOK
  OBVIOUS
<1>1. backend \in [Instances -> Backends]
  BY NoBackendType DEF Init
<1>2. /\ step \in [Instances -> Steps] /\ exit \in [Instances -> Exits \union {"none"}]
      /\ listener \in [Instances -> Listeners]
  BY DEF Init, Steps, Listeners
<1>3. version \in 0..Migrations /\ tables \in 0..Migrations
  BY LifecycleAssumption DEF Init
<1> QED
  BY <1>1, <1>2, <1>3 DEF Init, TypeOK

(* The end of a process keeps every variable within its type.               *)
LEMMA ExitType ==
  ASSUME TypeOK, NEW i \in Instances, NEW how \in Exits, Exit(i, how)
  PROVE  TypeOK'
<1>1. env' = env /\ starts' = starts /\ at' = at /\ UNCHANGED <<version, dirty, tables>>
  BY DEF Exit
<1>2. step' \in [Instances -> Steps] /\ exit' \in [Instances -> Exits \union {"none"}]
  BY DEF Exit, Goto, TypeOK, Steps
<1>3. backend' \in [Instances -> Backends]
  BY NoBackendType DEF Exit, TypeOK
<1>4. /\ listener' \in [Instances -> Listeners]
      /\ grace' \in [Instances -> Nat]
      /\ errCh' \subseteq Instances /\ sigCh' \subseteq Instances
      /\ lock' \in Instances \union {NoInstance}
  BY DEF Exit, TypeOK, Listeners
<1>5. req' \in [Requests -> {"idle", "active", "done", "dropped"}]
  BY DEF Exit, TypeOK
<1> QED
  BY <1>1, <1>2, <1>3, <1>4, <1>5 DEF TypeOK

(* The options passed to a factory are variables of the environment.        *)
LEMMA PassedType ==
  ASSUME NEW e \in Envs
  PROVE  Passed(e) \subseteq EnvVars
<1>1. e \in Environment
  BY LifecycleAssumption
<1> QED
  BY <1>1 DEF Environment, Passed, OptionsOf, EnvVars

(* Every step keeps every variable within its type.                         *)
LEMMA TypeStep == TypeOK /\ [Next]_vars => TypeOK'
<1> SUFFICES ASSUME TypeOK, [Next]_vars PROVE TypeOK'
  OBVIOUS
<1> USE DEF Goto, schema, server
<1>1. ASSUME NEW i \in Instances, Fail(i) \/ AfterUpError(i) PROVE TypeOK'
  BY <1>1, ExitType DEF Fail, AfterUpError, Exits
<1>2. ASSUME NEW i \in Instances, Start(i) PROVE TypeOK'
  BY <1>2 DEF Start, TypeOK, Steps, Starting
<1>3. ASSUME NEW i \in Instances, Load(i) \/ Connect(i) \/ Driver(i) PROVE TypeOK'
  BY <1>1, <1>3 DEF Load, Connect, Driver, TypeOK, Steps, Starting
<1>4. ASSUME NEW i \in Instances, Lock(i) PROVE TypeOK'
  BY <1>1, <1>4 DEF Lock, TypeOK, Steps, Starting
<1>5. ASSUME NEW i \in Instances, Apply(i) PROVE TypeOK'
  <2>1. CASE AfterUpError(i)
    BY <1>1, <2>1
  <2>2. CASE Pending /\ ~ AfterUpError(i)
    <3>1. version + 1 \in 0..Migrations
      BY <2>2, LifecycleAssumption DEF Pending, TypeOK
    <3> QED
      BY <1>5, <2>2, <3>1 DEF Apply, TypeOK, Steps, Starting
  <2>3. CASE ~ Pending /\ ~ AfterUpError(i)
    BY <1>5, <2>3 DEF Apply, TypeOK, Steps, Starting
  <2> QED
    BY <2>1, <2>2, <2>3
<1>6. ASSUME NEW i \in Instances, Migrate(i) \/ MarkClean(i) PROVE TypeOK'
  BY <1>1, <1>6 DEF Migrate, MarkClean, TypeOK, Steps, Starting
<1>7. ASSUME NEW i \in Instances, Redis(i) PROVE TypeOK'
  BY <1>1, <1>7 DEF Redis, TypeOK, Steps, Starting
<1>8. ASSUME NEW i \in Instances, Storage(i) PROVE TypeOK'
  <2>1. Passed(env[i]) \subseteq EnvVars
    BY PassedType DEF TypeOK
  <2>2. Resolves(env[i]) => [name |-> env[i].provider, options |-> Passed(env[i])] \in Backends
    BY <2>1 DEF Resolves, Backends
  <2>3. CASE Fail(i)
    BY <1>1, <2>3
  <2>4. CASE ~ Fail(i)
    <3> DEFINE b == [name |-> env[i].provider, options |-> Passed(env[i])]
    <3>1. backend' = [backend EXCEPT ![i] = b] /\ step' = [step EXCEPT ![i] = "run"] /\ b \in Backends
      BY <1>8, <2>2, <2>4 DEF Storage
    <3>2. UNCHANGED <<env, starts, schema, server, exit, at, req>>
      BY <1>8, <2>4 DEF Storage
    <3> HIDE DEF b
    <3> QED
      BY <3>1, <3>2 DEF TypeOK, Steps, Serving
  <2> QED
    BY <2>3, <2>4
<1>9. ASSUME NEW i \in Instances, Run(i) \/ Notify(i) PROVE TypeOK'
  BY <1>9 DEF Run, Notify, TypeOK, Steps, Serving, Listeners
<1>10. ASSUME NEW i \in Instances, Listen(i) \/ AcceptFails(i) PROVE TypeOK'
  BY <1>10 DEF Listen, AcceptFails, Report, TypeOK, Listeners
<1>11. ASSUME NEW i \in Instances, ReceiveError(i) \/ Drained(i) \/ DrainTimesOut(i) \/ Crash(i)
       PROVE  TypeOK'
  BY <1>11, ExitType DEF ReceiveError, Drained, DrainTimesOut, Crash, Exits
<1>12. ASSUME NEW i \in Instances, ReceiveSignal(i) PROVE TypeOK'
  BY <1>12, LifecycleAssumption DEF ReceiveSignal, TypeOK, Steps, Serving, Listeners
<1>13. ASSUME NEW i \in Instances, Signal(i) PROVE TypeOK'
  <2>1. CASE Handled(i)
    BY <1>13, <2>1 DEF Signal, TypeOK
  <2>2. CASE ~ Handled(i)
    BY <1>13, <2>2, ExitType DEF Signal, Exits
  <2> QED
    BY <2>1, <2>2
<1>14. ASSUME NEW q \in Requests, Finish(q) \/ \E i \in Instances : Accept(q, i) PROVE TypeOK'
  BY <1>14 DEF Finish, Accept, TypeOK
<1>15. CASE Tick
  BY <1>15 DEF Tick, TypeOK
<1>16. CASE UNCHANGED vars
  BY <1>16 DEF vars, TypeOK
<1> QED
  BY <1>2, <1>3, <1>4, <1>5, <1>6, <1>7, <1>8, <1>9, <1>10, <1>11, <1>12, <1>13, <1>14, <1>15, <1>16
  DEF Next, Main, Ended

(* Every reachable state is well typed.                                     *)
THEOREM Typing == Spec => []TypeOK
BY TypeInit, TypeStep, PTL DEF Spec

(***************************************************************************)
(* The schema.                                                             *)
(***************************************************************************)

(* Initially nobody holds the lock and no migration has run.                *)
LEMMA SchemaInit == Init => SchemaInv
BY TypeInit, LifecycleAssumption DEF Init, SchemaInv, LockHeld, MigrationAt, Holding, Past, Serving

(* A process that ends gives up the lock and leaves the schema as it is:    *)
(* dirty, if it was inside a migration.                                     *)
LEMMA ExitSchema ==
  ASSUME SchemaInv, NEW i \in Instances, NEW how \in Exits, Exit(i, how)
  PROVE  SchemaInv'
<1>1. TypeOK /\ TypeOK'
  BY ExitType DEF SchemaInv
<1>2. /\ UNCHANGED <<version, dirty, tables>>
      /\ lock' = IF lock = i THEN NoInstance ELSE lock
      /\ \A j \in Instances : step'[j] = IF j = i THEN "down" ELSE step[j]
  BY <1>1 DEF Exit, Goto, TypeOK
<1>3. LockHeld'
  BY <1>1, <1>2, LifecycleAssumption DEF SchemaInv, LockHeld, Holding
<1>4. MigrationAt'
  BY <1>1, <1>2 DEF SchemaInv, MigrationAt, Migrated, Past, Serving
<1> QED
  BY <1>1, <1>3, <1>4 DEF SchemaInv

(* A step that moves an instance forward outside Up, or moves none, and     *)
(* leaves the schema and its lock alone.                                    *)
LEMMA MoveSchema ==
  ASSUME SchemaInv, TypeOK', UNCHANGED schema,
         \A j \in Instances :
           \/ step'[j] = step[j]
           \/ step'[j] \notin Holding \union Past /\ step[j] \notin Holding
           \/ step[j] \in Past /\ step'[j] \in Past
  PROVE  SchemaInv'
<1>1. UNCHANGED <<version, dirty, tables, lock>>
  BY DEF schema
<1>2. LockHeld'
  BY <1>1 DEF SchemaInv, LockHeld, Holding, Past, Serving
<1>3. MigrationAt'
  BY <1>1 DEF SchemaInv, MigrationAt, Migrated, Past, Serving, Holding
<1> QED
  BY <1>2, <1>3 DEF SchemaInv

(* Every step keeps the schema's invariant.                                 *)
LEMMA SchemaStep == SchemaInv /\ [Next]_vars => SchemaInv'
<1> SUFFICES ASSUME SchemaInv, [Next]_vars PROVE SchemaInv'
  OBVIOUS
<1>0. TypeOK /\ TypeOK'
  BY TypeStep DEF SchemaInv
<1>1. ASSUME NEW i \in Instances, Fail(i) \/ AfterUpError(i) PROVE SchemaInv'
  BY <1>1, ExitSchema DEF Fail, AfterUpError, Exits
<1>2. ASSUME NEW i \in Instances, Start(i) PROVE SchemaInv'
  BY <1>0, <1>2, MoveSchema DEF Start, Goto, TypeOK, Holding, Past, Serving
<1>3. ASSUME NEW i \in Instances, Load(i) \/ Connect(i) \/ Driver(i) PROVE SchemaInv'
  <2>1. CASE Fail(i)
    BY <1>1, <2>1
  <2>2. CASE ~ Fail(i)
    BY <1>0, <1>3, <2>2, MoveSchema
    DEF Load, Connect, Driver, Goto, TypeOK, Holding, Past, Serving
  <2> QED
    BY <2>1, <2>2
<1>4. ASSUME NEW i \in Instances, Lock(i) PROVE SchemaInv'
  <2>1. CASE AfterUpError(i)
    BY <1>1, <2>1
  <2>2. CASE ~ AfterUpError(i)
    <3>1. /\ lock = NoInstance /\ ~ dirty /\ lock' = i
          /\ UNCHANGED <<version, dirty, tables>>
          /\ \A j \in Instances : step'[j] = IF j = i THEN "apply" ELSE step[j]
      BY <1>0, <1>4, <2>2 DEF Lock, Goto, TypeOK
    <3>2. LockHeld'
      BY <1>0, <3>1, LifecycleAssumption DEF SchemaInv, LockHeld, Holding
    <3>3. MigrationAt'
      BY <1>0, <3>1 DEF SchemaInv, MigrationAt, Migrated, Past, Serving
    <3> QED
      BY <1>0, <3>2, <3>3 DEF SchemaInv
  <2> QED
    BY <2>1, <2>2
<1>5. ASSUME NEW i \in Instances, Apply(i) PROVE SchemaInv'
  <2>1. CASE AfterUpError(i)
    BY <1>1, <2>1
  <2>2. step[i] = "apply" /\ lock = i /\ ~ dirty /\ tables = version
    BY <1>5 DEF Apply, SchemaInv, LockHeld, MigrationAt, Holding
  <2>3. \A j \in Instances \ {i} : step[j] \notin Holding
    BY <2>2 DEF SchemaInv, LockHeld
  <2>4. CASE Pending /\ ~ AfterUpError(i)
    <3>1. /\ version' = version + 1 /\ dirty' /\ UNCHANGED <<tables, lock>>
          /\ \A j \in Instances : step'[j] = IF j = i THEN "ddl" ELSE step[j]
      BY <1>0, <1>5, <2>4 DEF Apply, Goto, TypeOK
    <3>2. \A j \in Instances : step[j] \notin Past
      BY <2>4 DEF Pending, SchemaInv, MigrationAt, Migrated, TypeOK
    <3>3. LockHeld'
      BY <2>2, <2>3, <3>1 DEF SchemaInv, LockHeld, Holding
    <3>4. MigrationAt'
      BY <2>2, <2>3, <3>1, <3>2 DEF SchemaInv, MigrationAt, Migrated, Past, Serving, Holding
    <3> QED
      BY <1>0, <3>3, <3>4 DEF SchemaInv
  <2>5. CASE ~ Pending /\ ~ AfterUpError(i)
    <3>1. /\ UNCHANGED <<version, dirty, tables>> /\ lock' = NoInstance
          /\ \A j \in Instances : step'[j] = IF j = i THEN "redis" ELSE step[j]
      BY <1>0, <1>5, <2>5 DEF Apply, Goto, TypeOK
    <3>2. Migrated
      BY <2>2, <2>5, LifecycleAssumption DEF Pending, Migrated, SchemaInv, TypeOK
    <3>3. LockHeld'
      BY <2>2, <2>3, <3>1, LifecycleAssumption DEF SchemaInv, LockHeld, Holding
    <3>4. MigrationAt'
      BY <2>2, <2>3, <3>1, <3>2 DEF SchemaInv, MigrationAt, Migrated, Past, Serving, Holding
    <3> QED
      BY <1>0, <3>3, <3>4 DEF SchemaInv
  <2> QED
    BY <2>1, <2>4, <2>5
<1>6. ASSUME NEW i \in Instances, Migrate(i) PROVE SchemaInv'
  <2>1. CASE AfterUpError(i)
    BY <1>1, <2>1
  <2>2. CASE ~ AfterUpError(i)
    <3>1. /\ step[i] = "ddl" /\ lock = i /\ dirty
          /\ tables' = version /\ UNCHANGED <<version, dirty, lock>>
          /\ \A j \in Instances : step'[j] = IF j = i THEN "clean" ELSE step[j]
      BY <1>0, <1>6, <2>2 DEF Migrate, Goto, TypeOK, SchemaInv, LockHeld, MigrationAt, Holding
    <3>2. \A j \in Instances \ {i} : step[j] \notin Holding \union Past
      BY <3>1 DEF SchemaInv, LockHeld, MigrationAt, Migrated
    <3>3. LockHeld'
      BY <3>1, <3>2 DEF SchemaInv, LockHeld, Holding
    <3>4. MigrationAt'
      BY <3>1, <3>2 DEF SchemaInv, MigrationAt, Migrated, Past, Serving, Holding
    <3> QED
      BY <1>0, <3>3, <3>4 DEF SchemaInv
  <2> QED
    BY <2>1, <2>2
<1>7. ASSUME NEW i \in Instances, MarkClean(i) PROVE SchemaInv'
  <2>1. CASE AfterUpError(i)
    BY <1>1, <2>1
  <2>2. CASE ~ AfterUpError(i)
    <3>1. /\ step[i] = "clean" /\ lock = i /\ dirty /\ tables = version
          /\ ~ dirty' /\ UNCHANGED <<version, tables, lock>>
          /\ \A j \in Instances : step'[j] = IF j = i THEN "apply" ELSE step[j]
      BY <1>0, <1>7, <2>2 DEF MarkClean, Goto, TypeOK, SchemaInv, LockHeld, MigrationAt, Holding
    <3>2. \A j \in Instances \ {i} : step[j] \notin Holding \union Past
      BY <3>1 DEF SchemaInv, LockHeld, MigrationAt, Migrated
    <3>3. LockHeld'
      BY <3>1, <3>2 DEF SchemaInv, LockHeld, Holding
    <3>4. MigrationAt'
      BY <3>1, <3>2 DEF SchemaInv, MigrationAt, Migrated, Past, Serving, Holding
    <3> QED
      BY <1>0, <3>3, <3>4 DEF SchemaInv
  <2> QED
    BY <2>1, <2>2
<1>8. ASSUME NEW i \in Instances, Redis(i) \/ Storage(i) PROVE SchemaInv'
  <2>1. CASE Fail(i)
    BY <1>1, <2>1
  <2>2. CASE ~ Fail(i)
    BY <1>0, <1>8, <2>2, MoveSchema
    DEF Redis, Storage, Goto, TypeOK, Holding, Past, Serving
  <2> QED
    BY <2>1, <2>2
<1>9. ASSUME NEW i \in Instances, Run(i) \/ Notify(i) \/ ReceiveSignal(i) PROVE SchemaInv'
  BY <1>0, <1>9, MoveSchema DEF Run, Notify, ReceiveSignal, Goto, TypeOK, Past, Serving
<1>10. ASSUME NEW i \in Instances, Listen(i) \/ AcceptFails(i) PROVE SchemaInv'
  BY <1>0, <1>10, MoveSchema DEF Listen, AcceptFails
<1>11. ASSUME NEW i \in Instances, ReceiveError(i) \/ Drained(i) \/ DrainTimesOut(i) \/ Crash(i)
       PROVE  SchemaInv'
  BY <1>11, ExitSchema DEF ReceiveError, Drained, DrainTimesOut, Crash, Exits
<1>12. ASSUME NEW i \in Instances, Signal(i) PROVE SchemaInv'
  <2>1. CASE Handled(i)
    BY <1>0, <1>12, <2>1, MoveSchema DEF Signal
  <2>2. CASE ~ Handled(i)
    BY <1>12, <2>2, ExitSchema DEF Signal, Exits
  <2> QED
    BY <2>1, <2>2
<1>13. ASSUME NEW q \in Requests, Finish(q) \/ \E i \in Instances : Accept(q, i) PROVE SchemaInv'
  BY <1>0, <1>13, MoveSchema DEF Finish, Accept
<1>14. CASE Tick \/ UNCHANGED vars
  BY <1>0, <1>14, MoveSchema DEF Tick, vars
<1> QED
  BY <1>2, <1>3, <1>4, <1>5, <1>6, <1>7, <1>8, <1>9, <1>10, <1>11, <1>12, <1>13, <1>14
  DEF Next, Main, Ended

(* The lock is held by the one instance inside Up, a schema that is not     *)
(* dirty has all the tables of its version, and whoever is past Migrate     *)
(* finds it complete: no other instance can take it back.                   *)
THEOREM SchemaInvariant == Spec => []SchemaInv
BY SchemaInit, SchemaStep, PTL DEF Spec

(* Whatever other instances start, crash or fail half way through, an       *)
(* instance that serves finds every migration applied and none dirty.       *)
THEOREM MigratedWhenServing == Spec => []ServesOnlyMigrated
<1>1. SchemaInv => ServesOnlyMigrated
  BY DEF SchemaInv, MigrationAt, ServesOnlyMigrated, Past
<1> QED
  BY <1>1, SchemaInvariant, PTL

(***************************************************************************)
(* The requests.                                                           *)
(***************************************************************************)

(* Initially there is no listener and no request.                           *)
LEMMA ActiveInit == Init => ActiveServed
BY DEF Init, ActiveServed

(* A process that ends leaves neither a listener nor an active request.     *)
LEMMA ExitActive ==
  ASSUME TypeOK, ActiveServed, NEW i \in Instances, NEW how \in Exits, Exit(i, how)
  PROVE  ActiveServed'
<1>1. \A j \in Instances :
        /\ step'[j] = IF j = i THEN "down" ELSE step[j]
        /\ listener'[j] = IF j = i THEN "none" ELSE listener[j]
  BY DEF Exit, Goto, TypeOK
<1>2. /\ at' = at
      /\ \A q \in Requests :
           req'[q] = "active" => req[q] = "active" /\ at[q] # i
  BY DEF Exit, Active
<1>3. \A q \in Requests : req'[q] = "active" =>
        at'[q] \in Instances /\ step'[at'[q]] \in Serving \ {"run"}
  BY <1>1, <1>2 DEF ActiveServed
<1> QED
  BY <1>1, <1>3 DEF ActiveServed

(* A step of an instance that has no listener yet, and leaves listeners and *)
(* requests alone.                                                          *)
LEMMA MoveActive ==
  ASSUME ActiveServed, UNCHANGED <<listener, at, req>>,
         \A j \in Instances :
           step'[j] = step[j] \/ step[j] \notin Serving \ {"run"} \/ step'[j] \in Serving \ {"run"}
  PROVE  ActiveServed'
BY DEF ActiveServed

(* Every step keeps it.                                                     *)
LEMMA ActiveStep == TypeOK /\ ActiveServed /\ [Next]_vars => ActiveServed'
<1> SUFFICES ASSUME TypeOK, ActiveServed, [Next]_vars PROVE ActiveServed'
  OBVIOUS
<1>1. ASSUME NEW i \in Instances, Fail(i) \/ AfterUpError(i) PROVE ActiveServed'
  BY <1>1, ExitActive DEF Fail, AfterUpError, Exits
<1>2. ASSUME NEW i \in Instances, Start(i) PROVE ActiveServed'
  BY <1>2, MoveActive DEF Start, Goto, server, TypeOK, Serving
<1>3. ASSUME NEW i \in Instances, Load(i) \/ Connect(i) \/ Driver(i) \/ Redis(i)
      PROVE  ActiveServed'
  <2>1. CASE Fail(i)
    BY <1>1, <2>1
  <2>2. CASE ~ Fail(i)
    BY <1>3, <2>2, MoveActive DEF Load, Connect, Driver, Redis, Goto, server, TypeOK, Serving
  <2> QED
    BY <2>1, <2>2
<1>4. ASSUME NEW i \in Instances, Lock(i) \/ Apply(i) \/ Migrate(i) \/ MarkClean(i)
      PROVE  ActiveServed'
  <2>1. CASE AfterUpError(i)
    BY <1>1, <2>1
  <2>2. CASE ~ AfterUpError(i)
    BY <1>4, <2>2, MoveActive DEF Lock, Apply, Migrate, MarkClean, Goto, server, TypeOK, Serving
  <2> QED
    BY <2>1, <2>2
<1>5. ASSUME NEW i \in Instances, Storage(i) PROVE ActiveServed'
  <2>1. CASE Fail(i)
    BY <1>1, <2>1
  <2>2. CASE ~ Fail(i)
    BY <1>5, <2>2, MoveActive DEF Storage, Goto, server, TypeOK, Serving
  <2> QED
    BY <2>1, <2>2
<1>6. ASSUME NEW i \in Instances, Run(i) PROVE ActiveServed'
  <2>1. \A j \in Instances : step'[j] = (IF j = i THEN "notify" ELSE step[j])
    BY <1>6 DEF Run, Goto, TypeOK
  <2>2. \A j \in Instances : listener'[j] = (IF j = i THEN "starting" ELSE listener[j])
    BY <1>6 DEF Run, TypeOK
  <2>3. at' = at /\ req' = req
    BY <1>6 DEF Run
  <2> QED
    BY <2>1, <2>2, <2>3 DEF ActiveServed, Serving
<1>7. ASSUME NEW i \in Instances, Notify(i) PROVE ActiveServed'
  BY <1>7, MoveActive DEF Notify, Goto, server, TypeOK, Serving
<1>8. ASSUME NEW i \in Instances, Listen(i) \/ AcceptFails(i) PROVE ActiveServed'
  <2>1. \A j \in Instances : listener'[j] # "none" => listener[j] # "none"
    BY <1>8 DEF Listen, AcceptFails, TypeOK
  <2> QED
    BY <1>8, <2>1 DEF Listen, AcceptFails, ActiveServed
<1>9. ASSUME NEW i \in Instances, ReceiveSignal(i) PROVE ActiveServed'
  <2>1. \A j \in Instances : step'[j] = (IF j = i THEN "drain" ELSE step[j])
    BY <1>9 DEF ReceiveSignal, Goto, TypeOK
  <2>2. \A j \in Instances : listener'[j] # "none" => listener[j] # "none"
    BY <1>9 DEF ReceiveSignal, TypeOK
  <2>3. at' = at /\ req' = req
    BY <1>9 DEF ReceiveSignal
  <2> QED
    BY <2>1, <2>2, <2>3 DEF ActiveServed, Serving
<1>10. ASSUME NEW i \in Instances, ReceiveError(i) \/ Drained(i) \/ DrainTimesOut(i) \/ Crash(i)
       PROVE  ActiveServed'
  BY <1>10, ExitActive DEF ReceiveError, Drained, DrainTimesOut, Crash, Exits
<1>11. ASSUME NEW i \in Instances, Signal(i) PROVE ActiveServed'
  <2>1. CASE Handled(i)
    BY <1>11, <2>1, MoveActive DEF Signal
  <2>2. CASE ~ Handled(i)
    BY <1>11, <2>2, ExitActive DEF Signal, Exits
  <2> QED
    BY <2>1, <2>2
<1>12. ASSUME NEW q \in Requests, NEW i \in Instances, Accept(q, i) PROVE ActiveServed'
  <2>1. /\ at'[q] = i /\ \A p \in Requests \ {q} : at'[p] = at[p] /\ req'[p] = req[p]
        /\ step' = step /\ listener' = listener
    BY <1>12 DEF Accept, server, TypeOK
  <2>2. step[i] \in Serving \ {"run"}
    BY <1>12 DEF Accept, ActiveServed
  <2> QED
    BY <2>1, <2>2 DEF ActiveServed
<1>13. ASSUME NEW q \in Requests, Finish(q) PROVE ActiveServed'
  BY <1>13 DEF Finish, server, TypeOK, ActiveServed
<1>14. CASE Tick \/ UNCHANGED vars
  BY <1>14, MoveActive DEF Tick, vars, server
<1> QED
  BY <1>2, <1>3, <1>4, <1>5, <1>6, <1>7, <1>8, <1>9, <1>10, <1>11, <1>12, <1>13, <1>14
  DEF Next, Main, Ended

(* The schema's invariant, and that a request is active only on an instance *)
(* that serves.                                                             *)
THEOREM ServingInvariant == Spec => []ServingInv
<1>1. Init => ServingInv
  BY SchemaInit, ActiveInit DEF ServingInv
<1>2. ServingInv /\ [Next]_vars => ServingInv'
  BY SchemaStep, ActiveStep DEF ServingInv, SchemaInv
<1> QED
  BY <1>1, <1>2, PTL DEF Spec

(* The requests that a process drops when it ends are its own.              *)
LEMMA ExitDrops ==
  ASSUME TypeOK, NEW i \in Instances, NEW how \in Exits, Exit(i, how),
         NEW q \in Requests, req[q] = "active", req'[q] = "dropped"
  PROVE  at[q] = i /\ exit'[i] = how
BY DEF Exit, Active, TypeOK

(* Every drop is accounted for: an instance that fails to start has no      *)
(* requests, and one that has drained has none left.                        *)
LEMMA DropStep ==
  ASSUME ServingInv, [Next]_vars, NEW q \in Requests, req[q] = "active", req'[q] = "dropped"
  PROVE  DropAccounted(q)
<1> DEFINE i == at[q]
<1>1. TypeOK /\ i \in Instances /\ step[i] \in {"notify", "select", "drain"}
  BY DEF ServingInv, SchemaInv, ActiveServed, Serving
<1>2. req # req'
  OBVIOUS
<1>3. ASSUME NEW j \in Instances, step[j] \in Starting, Fail(j) \/ AfterUpError(j) PROVE FALSE
  <2>1. at[q] = j
    BY <1>1, <1>3, ExitDrops DEF Fail, AfterUpError, Exits
  <2> QED
    BY <1>1, <1>3, <2>1 DEF Starting
<1>4. ASSUME NEW j \in Instances, Load(j) \/ Connect(j) \/ Driver(j) \/ Redis(j) \/ Storage(j)
      PROVE  FALSE
  BY <1>2, <1>3, <1>4 DEF Load, Connect, Driver, Redis, Storage, Starting
<1>5. ASSUME NEW j \in Instances, Lock(j) \/ Apply(j) \/ Migrate(j) \/ MarkClean(j) PROVE FALSE
  BY <1>2, <1>3, <1>5 DEF Lock, Apply, Migrate, MarkClean, Starting
<1>6. ASSUME NEW j \in Instances,
             Start(j) \/ Run(j) \/ Notify(j) \/ Listen(j) \/ AcceptFails(j) \/ ReceiveSignal(j)
      PROVE  FALSE
  BY <1>2, <1>6 DEF Start, Run, Notify, Listen, AcceptFails, ReceiveSignal
<1>7. ASSUME NEW j \in Instances, ReceiveError(j) PROVE DropAccounted(q)
  BY <1>1, <1>7, ExitDrops DEF ReceiveError, DropAccounted, Exits
<1>8. ASSUME NEW j \in Instances, Crash(j) PROVE DropAccounted(q)
  BY <1>1, <1>8, ExitDrops DEF Crash, DropAccounted, Exits
<1>9. ASSUME NEW j \in Instances, Drained(j) PROVE FALSE
  <2>1. at[q] = j
    BY <1>1, <1>9, ExitDrops DEF Drained, Exits
  <2> QED
    BY <1>9, <2>1 DEF Drained, Quiet, Active
<1>10. ASSUME NEW j \in Instances, DrainTimesOut(j) PROVE DropAccounted(q)
  <2>1. at[q] = j /\ exit'[j] = "timeout"
    BY <1>1, <1>10, ExitDrops DEF DrainTimesOut, Exits
  <2> QED
    BY <1>10, <2>1 DEF DrainTimesOut, Expired, DropAccounted
<1>11. ASSUME NEW j \in Instances, Signal(j) PROVE DropAccounted(q)
  <2>1. ~ Handled(j) /\ Exit(j, "unhandled")
    BY <1>2, <1>11 DEF Signal
  <2>2. at[q] = j /\ exit'[j] = "unhandled"
    BY <1>1, <2>1, ExitDrops DEF Exits
  <2> QED
    BY <1>1, <2>1, <2>2 DEF Handled, DropAccounted
<1>12. ASSUME NEW p \in Requests, Finish(p) \/ \E j \in Instances : Accept(p, j) PROVE FALSE
  BY <1>1, <1>12 DEF Finish, Accept, TypeOK
<1>13. CASE Tick \/ UNCHANGED vars
  BY <1>2, <1>13 DEF Tick, vars
<1> QED
  BY <1>4, <1>5, <1>6, <1>7, <1>8, <1>9, <1>10, <1>11, <1>12, <1>13 DEF Next, Main, Ended

(* A request that was accepted is dropped only when Shutdown's time is up,  *)
(* when the process dies of a signal that came before Notify or of a crash, *)
(* or when the listener failed.                                             *)
THEOREM NoSilentDrop == Spec => DropsAccounted
<1> DEFINE Step == \A q \in Requests : req[q] = "active" /\ req'[q] = "dropped" => DropAccounted(q)
<1>1. ServingInv /\ [Next]_vars => [Step]_vars
  BY DropStep
<1>2. DropsAccounted <=> [][Step]_vars
  BY DEF DropsAccounted
<1> HIDE DEF Step
<1> QED
  BY <1>1, <1>2, ServingInvariant, PTL DEF Spec

(***************************************************************************)
(* The storage of an instance that serves.                                 *)
(***************************************************************************)

(* It was built by the configured factory, from the options of "s3".        *)
Built(i) ==
  /\ Resolves(env[i])
  /\ backend[i] = [name |-> env[i].provider, options |-> Passed(env[i])]

BuiltWhenServing == \A i \in Instances : step[i] \in Serving => Built(i)

(* Nobody who serves builds another storage, and who comes to serve has     *)
(* just built one.                                                          *)
LEMMA BuiltStep == TypeOK /\ BuiltWhenServing /\ [Next]_vars => BuiltWhenServing'
<1> SUFFICES ASSUME TypeOK, BuiltWhenServing, [Next]_vars PROVE BuiltWhenServing'
  OBVIOUS
<1>1. ASSUME env' = env,
             \A j \in Instances : step'[j] \in Serving =>
               step[j] \in Serving /\ backend'[j] = backend[j]
      PROVE  BuiltWhenServing'
  BY <1>1 DEF BuiltWhenServing, Built
<1>2. ASSUME NEW i \in Instances, NEW how, Exit(i, how) PROVE BuiltWhenServing'
  <2>1. /\ env' = env
        /\ \A j \in Instances : /\ step'[j] = IF j = i THEN "down" ELSE step[j]
                                /\ j # i => backend'[j] = backend[j]
    BY <1>2 DEF Exit, Goto, TypeOK
  <2> QED
    BY <1>1, <2>1 DEF Serving
<1>3. ASSUME NEW i \in Instances, Storage(i), ~ Fail(i) PROVE BuiltWhenServing'
  <2>1. /\ Resolves(env[i]) /\ env' = env
        /\ backend' = [backend EXCEPT ![i] = [name |-> env[i].provider, options |-> Passed(env[i])]]
        /\ step' = [step EXCEPT ![i] = "run"]
    BY <1>3 DEF Storage, Goto
  <2>2. /\ backend'[i] = [name |-> env[i].provider, options |-> Passed(env[i])]
        /\ \A j \in Instances \ {i} : step'[j] = step[j] /\ backend'[j] = backend[j]
    BY <2>1 DEF TypeOK
  <2> QED
    BY <2>1, <2>2 DEF BuiltWhenServing, Built
<1>4. ASSUME NEW i \in Instances, Fail(i) \/ AfterUpError(i) PROVE BuiltWhenServing'
  BY <1>2, <1>4 DEF Fail, AfterUpError
<1>5. ASSUME NEW i \in Instances, NEW s \in Steps, Goto(i, s), s \in Serving => step[i] \in Serving,
             env' = env, backend' = backend
      PROVE  BuiltWhenServing'
  BY <1>1, <1>5 DEF Goto, TypeOK
<1>6. ASSUME NEW i \in Instances,
             \/ Start(i) \/ Load(i) \/ Connect(i) \/ Driver(i) \/ Redis(i)
             \/ Lock(i) \/ Apply(i) \/ Migrate(i) \/ MarkClean(i)
             \/ Run(i) \/ Notify(i) \/ ReceiveSignal(i)
      PROVE  BuiltWhenServing'
  <2>1. CASE Fail(i) \/ AfterUpError(i)
    BY <1>4, <2>1
  <2>2. CASE ~ (Fail(i) \/ AfterUpError(i))
    BY <1>5, <1>6, <2>2 DEF Start, Load, Connect, Driver, Redis, Lock, Apply, Migrate, MarkClean,
       Run, Notify, ReceiveSignal, Steps, Starting, Serving
  <2> QED
    BY <2>1, <2>2
<1>7. ASSUME NEW i \in Instances,
             ReceiveError(i) \/ Drained(i) \/ DrainTimesOut(i) \/ Crash(i) \/ Signal(i)
      PROVE  BuiltWhenServing'
  <2>1. CASE \E how : Exit(i, how)
    BY <1>2, <2>1
  <2>2. CASE ~ \E how : Exit(i, how)
    BY <1>1, <1>7, <2>2 DEF ReceiveError, Drained, DrainTimesOut, Crash, Signal
  <2> QED
    BY <2>1, <2>2
<1>8. ASSUME UNCHANGED <<env, step, backend>> PROVE BuiltWhenServing'
  BY <1>1, <1>8
<1>9. ASSUME NEW i \in Instances, Storage(i) PROVE BuiltWhenServing'
  BY <1>3, <1>4, <1>9
<1> QED
  BY <1>6, <1>7, <1>8, <1>9 DEF Next, Main, Listen, AcceptFails, Accept, Finish, Tick, Ended, vars

THEOREM BuiltInvariant == Spec => []BuiltWhenServing
<1>1. Init => BuiltWhenServing
  BY DEF Init, BuiltWhenServing, Serving
<1> QED
  BY <1>1, BuiltStep, Typing, PTL DEF Spec

(* What follows from Build passing Options["s3"] to every factory           *)
(* (wire.go:62), in every environment: an instance that is configured with  *)
(* R2 never serves, one with S3 serves from its bucket, and one with the    *)
(* local provider never gets STORAGE_LOCAL_PATH or STORAGE_LOCAL_BASE_URL.  *)
OnlyS3Options ==
  \A i \in Instances : step[i] \in Serving =>
    /\ env[i].provider \in {"s3", "local"}
    /\ env[i].provider = "s3" =>
         backend[i] = [name |-> "s3", options |-> env[i].set \intersect Variables["s3"]]
    /\ backend[i].options \intersect Variables["local"] = {}

THEOREM NeverR2NorLocal == Spec => []OnlyS3Options
<1>1. ASSUME BuiltWhenServing, NEW i \in Instances, step[i] \in Serving
      PROVE  /\ env[i].provider \in {"s3", "local"}
             /\ env[i].provider = "s3" =>
                  backend[i] = [name |-> "s3", options |-> env[i].set \intersect Variables["s3"]]
             /\ backend[i].options \intersect Variables["local"] = {}
  <2>1. Built(i)
    BY <1>1 DEF BuiltWhenServing
  <2>2. Passed(env[i]) \subseteq Variables["s3"]
    BY DEF Passed, OptionsOf, Registered
  <2>3. /\ Variables["s3"] = {"STORAGE_S3_BUCKET", "STORAGE_S3_REGION"}
        /\ Variables["s3"] \intersect Variables["local"] = {}
    BY DEF Variables
  <2>4. env[i].provider # "r2"
    <3>1. "STORAGE_R2_BUCKET" \in Required["r2"]
      BY DEF Required, Variables
    <3> QED
      BY <2>1, <2>2, <2>3, <3>1 DEF Built, Resolves
  <2>5. env[i].provider = "s3" => Passed(env[i]) = env[i].set \intersect Variables["s3"]
    <3>1. Required["s3"] = Variables["s3"]
      BY DEF Required
    <3>2. "STORAGE_S3_BUCKET" \in Variables["s3"]
      BY <2>3
    <3> QED
      BY <2>1, <3>1, <3>2 DEF Built, Resolves, Passed, OptionsOf
  <2> QED
    BY <2>1, <2>2, <2>3, <2>4, <2>5 DEF Built, Resolves, Registered
<1>2. BuiltWhenServing => OnlyS3Options
  BY <1>1 DEF OnlyS3Options
<1> QED
  BY <1>2, BuiltInvariant, PTL

(* "STORAGE_PROVIDER picks the default" (config.go:128): true if no         *)
(* instance with the local provider is given a path, a base URL or a bucket *)
(* of S3, whatever the others are configured with.                          *)
THEOREM ConfiguredUnlessLocal ==
  ASSUME \A e \in Envs : e.provider = "local" =>
           e.set \intersect (Variables["local"] \union {"STORAGE_S3_BUCKET"}) = {}
  PROVE  Spec => []StorageAsConfigured
<1>1. TypeOK /\ BuiltWhenServing /\ OnlyS3Options => StorageAsConfigured
  <2> SUFFICES ASSUME TypeOK, BuiltWhenServing, OnlyS3Options, NEW i \in Instances, step[i] \in Serving
               PROVE  Passed(env[i]) = OptionsOf(env[i], env[i].provider)
    BY DEF StorageAsConfigured, BuiltWhenServing, Built
  <2>1. env[i] \in Envs /\ env[i].provider \in {"s3", "local"}
    BY DEF TypeOK, OnlyS3Options
  <2>2. CASE env[i].provider = "s3"
    BY <2>2 DEF Passed
  <2>3. CASE env[i].provider = "local"
    <3>1. OptionsOf(env[i], "local") = {}
      BY <2>1, <2>3 DEF OptionsOf, Variables
    <3>2. Passed(env[i]) = {}
      BY <2>1, <2>3 DEF Passed, OptionsOf, Trigger
    <3> QED
      BY <2>3, <3>1, <3>2
  <2> QED
    BY <2>1, <2>2, <2>3
<1> QED
  BY <1>1, Typing, BuiltInvariant, NeverR2NorLocal, PTL

(***************************************************************************)
(* Requests, where the listener does not fail of itself.                   *)
(***************************************************************************)

(* An error is in errCh only because the address could not be bound, and    *)
(* then no request was ever accepted.                                       *)
FailedIdle ==
  \A i \in Instances :
    /\ i \in errCh => listener[i] = "failed"
    /\ listener[i] \in {"none", "starting", "failed"} => Active(i) = {}

LEMMA FailedIdleStep ==
  ASSUME "accept" \notin Faults, TypeOK, ServingInv, FailedIdle, [Next]_vars
  PROVE  FailedIdle'
<1> USE DEF TypeOK, FailedIdle, Active
<1>1. ASSUME NEW j \in Instances, NEW how \in Exits, Exit(j, how) PROVE FailedIdle'
  BY <1>1 DEF Exit
<1>2. ASSUME UNCHANGED <<listener, errCh, at, req>> PROVE FailedIdle'
  BY <1>2
<1>3. ASSUME NEW j \in Instances,
             \/ Load(j) \/ Connect(j) \/ Driver(j) \/ Lock(j) \/ Apply(j) \/ Migrate(j)
             \/ MarkClean(j) \/ Redis(j) \/ Storage(j)
      PROVE  FailedIdle'
  BY <1>1, <1>2, <1>3 DEF Load, Connect, Driver, Lock, Apply, Migrate, MarkClean, Redis, Storage,
     Fail, AfterUpError, Exits, server
<1>4. ASSUME NEW j \in Instances, ReceiveError(j) \/ Drained(j) \/ DrainTimesOut(j) \/ Crash(j)
      PROVE  FailedIdle'
  BY <1>1, <1>4 DEF ReceiveError, Drained, DrainTimesOut, Crash, Exits
<1>5. ASSUME NEW j \in Instances, Signal(j) PROVE FailedIdle'
  BY <1>1, <1>2, <1>5 DEF Signal, Exits
<1>6. ASSUME NEW j \in Instances, Start(j) \/ Notify(j) PROVE FailedIdle'
  BY <1>2, <1>6 DEF Start, Notify, server
<1>7. ASSUME NEW j \in Instances, Run(j) PROVE FailedIdle'
  <2>1. step[j] = "run" /\ listener[j] = "none"
    BY <1>7 DEF Run, ServingInv, ActiveServed
  <2>2. UNCHANGED <<errCh, at, req>> /\ listener' = [listener EXCEPT ![j] = "starting"]
    BY <1>7 DEF Run
  <2> QED
    BY <2>1, <2>2
<1>8. ASSUME NEW j \in Instances, Listen(j) PROVE FailedIdle'
  BY <1>8 DEF Listen, Report
<1>9. ASSUME NEW j \in Instances, ReceiveSignal(j) PROVE FailedIdle'
  BY <1>9 DEF ReceiveSignal
<1>10. ASSUME NEW q \in Requests, NEW j \in Instances, Accept(q, j) PROVE FailedIdle'
  BY <1>10 DEF Accept, server
<1>11. ASSUME NEW q \in Requests, Finish(q) PROVE FailedIdle'
  BY <1>11 DEF Finish, server
<1>12. CASE Tick \/ UNCHANGED vars
  BY <1>2, <1>12 DEF Tick, vars, server
<1> QED
  BY <1>3, <1>4, <1>5, <1>6, <1>7, <1>8, <1>9, <1>10, <1>11, <1>12 DEF Next, Main, AcceptFails, Ended

(* A request that is dropped is one for which Shutdown had no more time, or *)
(* one that a signal met before Notify.                                     *)
OnlyOutOfTime ==
  [][\A q \in Requests : req[q] = "active" /\ req'[q] = "dropped" =>
       LET i == at[q] IN
         \/ exit'[i] = "timeout" /\ step[i] = "drain" /\ grace[i] = 0
         \/ exit'[i] = "unhandled" /\ step[i] = "notify"]_vars

(* "Let in-flight requests complete (up to a timeout)" (server.go:5): true  *)
(* of a process that does not crash and whose listener, once open, goes on, *)
(* but for the moment between Run's goroutine and signal.Notify             *)
(* (server.go:43-51).  That an address is in use costs nobody a request.    *)
THEOREM DropsOnlyOutOfTime ==
  ASSUME Faults \intersect {"crash", "accept"} = {}
  PROVE  Spec => OnlyOutOfTime
<1> DEFINE InTime(q) == LET i == at[q] IN
             \/ exit'[i] = "timeout" /\ step[i] = "drain" /\ grace[i] = 0
             \/ exit'[i] = "unhandled" /\ step[i] = "notify"
           Step == \A q \in Requests : req[q] = "active" /\ req'[q] = "dropped" => InTime(q)
<1>1. Init => FailedIdle
  BY DEF Init, FailedIdle, Active
<1>2. TypeOK /\ ServingInv /\ FailedIdle /\ [Next]_vars => FailedIdle'
  BY FailedIdleStep
<1>3. TypeOK /\ ServingInv /\ FailedIdle /\ [Next]_vars => [Step]_vars
  <2> SUFFICES ASSUME TypeOK, ServingInv, FailedIdle, [Next]_vars,
                      NEW q \in Requests, req[q] = "active", req'[q] = "dropped"
               PROVE  InTime(q)
    OBVIOUS
  <2> DEFINE Otherwise == exit'[at[q]] \notin {"crashed", "error"}
  <2>1. DropAccounted(q)
    BY DropStep
  <2>2. req' # req
    OBVIOUS
  <2>3. ASSUME NEW j \in Instances, NEW how \in Exits \ {"crashed", "error"}, Exit(j, how)
        PROVE  Otherwise
    BY <2>3, ExitDrops
  <2>4. ASSUME NEW j \in Instances, ReceiveError(j) PROVE FALSE
    <3>1. at[q] = j
      BY <2>4, ExitDrops DEF ReceiveError, Exits
    <3> QED
      BY <2>4, <3>1 DEF ReceiveError, FailedIdle, Active
  <2>5. ASSUME NEW j \in Instances, Main(j) PROVE Otherwise
    <3> HIDE DEF Otherwise
    <3>1. CASE Load(j) \/ Connect(j) \/ Driver(j) \/ Redis(j) \/ Storage(j)
      BY <2>2, <2>3, <3>1 DEF Load, Connect, Driver, Redis, Storage, Fail, Exits
    <3>2. CASE Lock(j) \/ Apply(j) \/ Migrate(j) \/ MarkClean(j)
      BY <2>2, <2>3, <3>2 DEF Lock, Apply, Migrate, MarkClean, AfterUpError, Fail, Exits
    <3>3. CASE Run(j) \/ Notify(j) \/ ReceiveSignal(j)
      BY <2>2, <3>3 DEF Run, Notify, ReceiveSignal
    <3>4. CASE Drained(j) \/ DrainTimesOut(j)
      BY <2>3, <3>4 DEF Drained, DrainTimesOut, Exits
    <3> QED
      BY <2>4, <2>5, <3>1, <3>2, <3>3, <3>4 DEF Main
  <2>6. ASSUME NEW j \in Instances, Signal(j) PROVE Otherwise
    <3> HIDE DEF Otherwise
    <3> QED
      BY <2>2, <2>3, <2>6 DEF Signal, Exits
  <2>7. ASSUME NEW j \in Instances,
               Start(j) \/ Listen(j) \/ AcceptFails(j) \/ Crash(j)
        PROVE  FALSE
    BY <2>2, <2>7 DEF Start, Listen, AcceptFails, Crash
  <2>8. ASSUME NEW p \in Requests, Finish(p) \/ \E j \in Instances : Accept(p, j) PROVE FALSE
    BY <2>8 DEF Finish, Accept, TypeOK
  <2>9. ~ Tick /\ ~ UNCHANGED vars
    BY <2>2 DEF Tick, vars
  <2>10. Otherwise
    <3> HIDE DEF Otherwise
    <3> QED
      BY <2>5, <2>6, <2>7, <2>8, <2>9 DEF Next, Ended
  <2> QED
    BY <2>1, <2>10 DEF DropAccounted
<1>4. OnlyOutOfTime <=> [][Step]_vars
  BY DEF OnlyOutOfTime
<1> HIDE DEF Step
<1> QED
  BY <1>1, <1>2, <1>3, <1>4, Typing, ServingInvariant, PTL DEF Spec

(***************************************************************************)
(* How far an instance is from its end.                                    *)
(***************************************************************************)

Ahead == [down |-> 0, drain |-> 1, select |-> 2, notify |-> 3, run |-> 4, storage |-> 5,
          redis |-> 6, apply |-> 7, clean |-> 8, ddl |-> 9, lock |-> 10, driver |-> 11,
          connect |-> 12, load |-> 13]

(* Steps that the main goroutine has left at most: three for each migration *)
(* that may still have to be applied, and one for each place after that.    *)
Left(i) ==
  Ahead[step[i]] +
    (IF step[i] \in {"load", "connect", "driver", "lock"} THEN 3 * Migrations
     ELSE IF step[i] \in Holding THEN 3 * (Migrations - version)
     ELSE 0)

(* What SignalEnds and DeafEnds need besides fairness: a process goes       *)
(* forward with every step of its main goroutine, and no other step takes   *)
(* it back, other instances' migrations included.  Up does not go round:    *)
(* it ends in 3 * Migrations + 1 steps, whoever has migrated before.        *)
THEOREM InstancesGoForward ==
  Spec => [][\A i \in Instances : step[i] # "down" =>
               /\ Left(i) \in Nat /\ Left(i)' <= Left(i)
               /\ Main(i) => Left(i)' < Left(i)]_vars
<1> DEFINE Forward(i) ==
             step[i] # "down" => /\ Left(i) \in Nat /\ Left(i)' <= Left(i)
                                 /\ Main(i) => Left(i)' < Left(i)
<1>1. ASSUME TypeOK, NEW i \in Instances PROVE Left(i) \in Nat
  <2>1. version \in 0..Migrations /\ Migrations \in Nat
    BY <1>1, LifecycleAssumption DEF TypeOK
  <2>2. step[i] \in Steps
    BY <1>1 DEF TypeOK
  <2> QED
    BY <2>1, <2>2 DEF Left, Ahead, Steps, Starting, Serving, Holding
<1>2. ASSUME TypeOK, NEW j \in Instances, NEW how \in Exits, Exit(j, how)
      PROVE  /\ \A i \in Instances : i # j => step'[i] = step[i]
             /\ step'[j] = "down" /\ version' = version
  BY <1>2 DEF Exit, Goto, TypeOK
  (* Each step of the main goroutine goes to one of the next places.          *)
<1>3. ASSUME SchemaInv, NEW j \in Instances, Main(j)
      PROVE  /\ \A i \in Instances : i # j => step'[i] = step[i]
             /\ step[j] # "down"
             /\ \/ step'[j] = "down" /\ version' = version
                \/ /\ version' = version
                   /\ <<step[j], step'[j]>> \in
                        {<<"load", "connect">>, <<"connect", "driver">>, <<"driver", "lock">>,
                         <<"lock", "apply">>, <<"ddl", "clean">>, <<"clean", "apply">>,
                         <<"apply", "redis">>, <<"redis", "storage">>, <<"storage", "run">>,
                         <<"run", "notify">>, <<"notify", "select">>, <<"select", "drain">>}
                \/ step[j] = "apply" /\ step'[j] = "ddl" /\ version' = version + 1
                     /\ version < Migrations
  <2> DEFINE Moves == /\ \A i \in Instances : i # j => step'[i] = step[i]
                      /\ step[j] # "down"
                      /\ step'[j] = "down" /\ version' = version
  <2>1. TypeOK
    BY <1>3 DEF SchemaInv
  <2>2. ASSUME step[j] # "down", NEW how \in Exits, Exit(j, how) PROVE Moves
    BY <1>2, <2>1, <2>2
  <2>3. CASE Load(j)
    <3>1. CASE Fail(j)
      BY <2>2, <2>3, <3>1 DEF Load, Fail, Exits
    <3> QED
      BY <2>1, <2>3, <3>1 DEF Load, Goto, TypeOK, schema
  <2>4. CASE Connect(j)
    <3>1. CASE Fail(j)
      BY <2>2, <2>4, <3>1 DEF Connect, Fail, Exits
    <3> QED
      BY <2>1, <2>4, <3>1 DEF Connect, Goto, TypeOK, schema
  <2>5. CASE Driver(j)
    <3>1. CASE Fail(j)
      BY <2>2, <2>5, <3>1 DEF Driver, Fail, Exits
    <3> QED
      BY <2>1, <2>5, <3>1 DEF Driver, Goto, TypeOK, schema
  <2>6. CASE Lock(j)
    <3>1. CASE AfterUpError(j)
      BY <2>2, <2>6, <3>1 DEF Lock, AfterUpError, Fail, Exits
    <3> QED
      BY <2>1, <2>6, <3>1 DEF Lock, Goto, TypeOK
  <2>7. CASE Apply(j)
    <3>1. CASE AfterUpError(j)
      BY <2>2, <2>7, <3>1 DEF Apply, AfterUpError, Fail, Exits
    <3> QED
      BY <2>1, <2>7, <3>1 DEF Apply, Pending, Goto, TypeOK
  <2>8. CASE Migrate(j)
    <3>1. CASE AfterUpError(j)
      BY <2>2, <2>8, <3>1 DEF Migrate, AfterUpError, Fail, Exits
    <3> QED
      BY <2>1, <2>8, <3>1 DEF Migrate, Goto, TypeOK
  <2>9. CASE MarkClean(j)
    <3>1. CASE AfterUpError(j)
      BY <2>2, <2>9, <3>1 DEF MarkClean, AfterUpError, Fail, Exits
    <3> QED
      BY <2>1, <2>9, <3>1 DEF MarkClean, Goto, TypeOK
  <2>10. CASE Redis(j)
    <3>1. CASE Fail(j)
      BY <2>2, <2>10, <3>1 DEF Redis, Fail, Exits
    <3> QED
      BY <2>1, <2>10, <3>1 DEF Redis, Goto, TypeOK, schema
  <2>11. CASE Storage(j)
    <3>1. CASE Fail(j)
      BY <2>2, <2>11, <3>1 DEF Storage, Fail, Exits
    <3> QED
      BY <2>1, <2>11, <3>1 DEF Storage, Goto, TypeOK, schema
  <2>12. CASE Run(j) \/ Notify(j) \/ ReceiveSignal(j)
    BY <2>1, <2>12 DEF Run, Notify, ReceiveSignal, Goto, TypeOK, schema
  <2>13. CASE ReceiveError(j) \/ Drained(j) \/ DrainTimesOut(j)
    BY <2>2, <2>13 DEF ReceiveError, Drained, DrainTimesOut, Exits
  <2> HIDE DEF Moves
  <2> QED
    BY <1>3, <2>3, <2>4, <2>5, <2>6, <2>7, <2>8, <2>9, <2>10, <2>11, <2>12, <2>13 DEF Main
<1>4. ASSUME SchemaInv, NEW i \in Instances, Main(i) PROVE Left(i)' < Left(i)
  <2>1. version \in 0..Migrations /\ Migrations \in Nat /\ step[i] \in Steps
    BY LifecycleAssumption, <1>4 DEF SchemaInv, TypeOK
  <2>2. CASE step'[i] = "down" /\ version' = version
    <3>1. step[i] # "down" /\ step[i] \in Steps
      BY <1>3, <1>4, <2>1
    <3>2. Left(i)' = 0
      BY <2>2 DEF Left, Ahead, Holding
    <3>3. Left(i) > 0
      BY <2>1, <3>1 DEF Left, Ahead, Steps, Starting, Serving, Holding
    <3> QED
      BY <3>2, <3>3
  <2>3. CASE version' = version /\ step'[i] # "down"
    <3>1. <<step[i], step'[i]>> \in
            {<<"load", "connect">>, <<"connect", "driver">>, <<"driver", "lock">>,
             <<"lock", "apply">>, <<"ddl", "clean">>, <<"clean", "apply">>,
             <<"apply", "redis">>, <<"redis", "storage">>, <<"storage", "run">>,
             <<"run", "notify">>, <<"notify", "select">>, <<"select", "drain">>}
      BY <1>3, <1>4, <2>1, <2>3
    <3>2. CASE <<step[i], step'[i]>> \in
            {<<"load", "connect">>, <<"connect", "driver">>, <<"driver", "lock">>}
      BY <2>1, <2>3, <3>2 DEF Left, Ahead, Holding
    <3>3. CASE <<step[i], step'[i]>> \in
            {<<"lock", "apply">>, <<"ddl", "clean">>, <<"clean", "apply">>, <<"apply", "redis">>}
      BY <2>1, <2>3, <3>3 DEF Left, Ahead, Holding
    <3>4. CASE <<step[i], step'[i]>> \in
            {<<"redis", "storage">>, <<"storage", "run">>, <<"run", "notify">>,
             <<"notify", "select">>, <<"select", "drain">>}
      BY <2>1, <2>3, <3>4 DEF Left, Ahead, Holding
    <3> QED
      BY <3>1, <3>2, <3>3, <3>4
  <2>4. CASE version' # version
    <3>1. step[i] = "apply" /\ step'[i] = "ddl" /\ version' = version + 1
      BY <1>3, <1>4, <2>4
    <3> QED
      BY <2>1, <3>1 DEF Left, Ahead, Holding
  <2> QED
    BY <2>2, <2>3, <2>4
  (* While an instance is inside Up, nobody else changes the version.         *)
<1>5. ASSUME SchemaInv, NEW i \in Instances, NEW j \in Instances, i # j, Main(j)
      PROVE  step'[i] = step[i] /\ (step[i] \in Holding => version' = version)
  <2>1. version' # version => step[j] = "apply"
    BY <1>3, <1>5
  <2>2. step[i] \in Holding => step[j] # "apply"
    BY <1>5 DEF SchemaInv, LockHeld, Holding
  <2> QED
    BY <1>3, <1>5, <2>1, <2>2
<1>6. ASSUME NEW i \in Instances, step'[i] = step[i], step[i] \in Holding => version' = version
      PROVE  Left(i)' = Left(i)
  BY <1>6 DEF Left
<1>7. SchemaInv /\ TypeOK' /\ [Next]_vars => [\A i \in Instances : Forward(i)]_vars
  <2> SUFFICES ASSUME SchemaInv, TypeOK', [Next]_vars, NEW i \in Instances, step[i] # "down"
               PROVE  /\ Left(i) \in Nat /\ Left(i)' <= Left(i)
                      /\ Main(i) => Left(i)' < Left(i)
    OBVIOUS
  <2>1. Left(i) \in Nat /\ TypeOK
    BY <1>1 DEF SchemaInv
  <2>2. Left(i)' \in Nat
    <3>1. version' \in 0..Migrations /\ Migrations \in Nat /\ step'[i] \in Steps
      BY LifecycleAssumption DEF TypeOK
    <3> QED
      BY <3>1 DEF Left, Ahead, Steps, Starting, Serving, Holding
  <2>3. Main(i) => Left(i)' < Left(i)
    BY <1>4
  <2>4. ASSUME step'[i] = step[i], step[i] \in Holding => version' = version
        PROVE  Left(i)' <= Left(i)
    BY <1>6, <2>1, <2>2, <2>4
  <2>5. ASSUME NEW j \in Instances, Main(j) PROVE Left(i)' <= Left(i)
    <3>1. CASE j = i
      BY <2>1, <2>2, <2>3, <2>5, <3>1
    <3>2. CASE j # i
      BY <1>5, <2>4, <2>5, <3>2
    <3> QED
      BY <3>1, <3>2
  <2>6. ASSUME NEW j \in Instances, NEW how \in Exits, Exit(j, how) PROVE Left(i)' <= Left(i)
    <3>1. CASE j = i
      <4>1. step'[i] = "down"
        BY <1>2, <2>1, <2>6, <3>1
      <4>2. Left(i)' = 0
        BY <4>1 DEF Left, Ahead, Holding
      <4> QED
        BY <2>1, <4>2
    <3>2. CASE j # i
      BY <1>2, <2>1, <2>4, <2>6, <3>2
    <3> QED
      BY <3>1, <3>2
  <2>7. ASSUME NEW j \in Instances, Start(j) PROVE Left(i)' <= Left(i)
    <3>1. step'[i] = step[i] /\ version' = version
      BY <2>1, <2>7 DEF Start, Goto, TypeOK, schema
    <3> QED
      BY <2>4, <3>1
  <2>8. ASSUME NEW j \in Instances, Signal(j) \/ Crash(j) PROVE Left(i)' <= Left(i)
    <3>1. CASE Exit(j, "unhandled") \/ Exit(j, "crashed")
      BY <2>6, <3>1 DEF Exits
    <3>2. CASE UNCHANGED <<step, schema>>
      BY <2>4, <3>2 DEF schema
    <3> QED
      BY <2>8, <3>1, <3>2 DEF Signal, Crash
  <2>9. ASSUME NEW j \in Instances,
               Listen(j) \/ AcceptFails(j) \/ \E q \in Requests : Accept(q, j)
        PROVE  Left(i)' <= Left(i)
    BY <2>4, <2>9 DEF Listen, AcceptFails, Accept, schema
  <2>10. ASSUME Tick \/ UNCHANGED vars \/ \E q \in Requests : Finish(q)
         PROVE  Left(i)' <= Left(i)
    BY <2>4, <2>10 DEF Tick, vars, Finish, schema
  <2>11. Left(i)' <= Left(i)
    BY <2>5, <2>7, <2>8, <2>9, <2>10 DEF Next, Ended
  <2> QED
    BY <2>1, <2>3, <2>11
<1> HIDE DEF Forward
<1>8. Spec => [][\A i \in Instances : Forward(i)]_vars
  BY <1>7, SchemaInvariant, Typing, PTL DEF Spec
<1> QED
  BY <1>8 DEF Forward
====
