SPECIFICATION MCFairSpec
CONSTANTS
  r1 = r1
  r2 = r2
  r3 = r3
  r4 = r4
  good = good
  bad = bad
  cut = cut
  Requests = {r1, r2}
  Keys = {"k1", "long"}
  Unfit = {"long"}
  NoKey = "none"
  Bodies = {good, bad, cut}
  Truncated = cut
  Verdict <- MCVerdict
  TTL = 1
  MaxTime = 1
  Faults = {"db", "storage", "cancel", "crash", "panic", "truncate"}
  Overlap = TRUE
  NilBody = {"null", "empty"}
INVARIANTS
  TypeOK
  AtMostOnceUndisturbed
  ReplaySound
  SameAnswer
  RefusedOnlyOnReuse
  ProtectionInv
  ReplayInv
PROPERTIES
  KeepsPromise
  EveryAttemptEnds
