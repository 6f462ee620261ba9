SPECIFICATION Spec
CONSTANTS
  Instances = {i1}
  NoInstance = NoInstance
  Requests = {q1}
  Migrations = 2
  Envs <- Development
  Grace = 1
  MaxStarts = 1
  Faults = {}
INVARIANT StorageAsConfigured
