SPECIFICATION Spec
SYMMETRY Clients
CONSTANTS
  Requests = {r1, r2, r3}
  Buckets = {ip1}
  Limit = 1
  Hour = 2
  MaxTime = 3
  Retries = 1
  Faults = {"down", "lost", "crash"}
INVARIANTS
  TypeOK
  CapPerWindow
  RefusalEarned
  CountersExpire
  ResetNotEarly
  LimitInv
PROPERTY
  NoResetInWindow
