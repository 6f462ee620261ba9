SPECIFICATION FairSpec
CONSTANTS
  Instances = {i1, i2}
  NoInstance = NoInstance
  Requests = {q1, q2}
  Migrations = 2
  Envs <- Deployments
  Grace = 1
  MaxStarts = 3
  Faults = {"db", "redis", "disk", "port", "accept", "crash", "signal"}
INVARIANTS
  TypeOK
  ServesOnlyMigrated
  ServingInv
PROPERTIES
  DropsAccounted
  SignalEnds
  DeafEnds
