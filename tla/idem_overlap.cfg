SPECIFICATION Spec
CONSTANTS
  r1 = r1
  r2 = r2
  r3 = r3
  r4 = r4
  good = good
  bad = bad
  cut = cut
  Requests = {r1, r2}
  Keys = {"k1"}
  Unfit = {}
  NoKey = "none"
  Bodies = {good, bad, cut}
  Truncated = cut
  Verdict <- MCVerdict
  TTL = 2
  MaxTime = 1
  Faults = {}
  Overlap = TRUE
  NilBody = {"null"}
INVARIANT AtMostOnce
