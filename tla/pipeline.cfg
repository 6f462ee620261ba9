SPECIFICATION MCSpec
CONSTANTS
  r1 = r1
  r2 = r2
  good = good
  bad = bad
  cut = cut
  Requests = {r1, r2}
  Buckets = {ip1}
  Limit = 1
  Hour = 2
  MaxTime = 1
  Retries = 0
  Keys = {"k1"}
  Unfit = {}
  NoKey = "none"
  Bodies = {good, bad, cut}
  Truncated = cut
  Verdict <- MCVerdict
  RowTTL = 1
  Overlap = TRUE
  NilBody = {"null"}
  Faults = {"db", "down", "cancel", "panic", "hang"}
  Pool = 1
  NoTodo = "nothing"
  NoUuid = "malformed"
CHECK_DEADLOCK FALSE
INVARIANTS
  TypeOK
  EffectsWithinLimit
  ObservedAsAnswered
  PipelineInv
  ToldIsFound
PROPERTY
  EndsUnlessStuck
