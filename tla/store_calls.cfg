INIT MCInit
NEXT Next
SYMMETRY Callers
CONSTANTS
  Calls = {c1, c2, c3}
  Nobody = Nobody
  Keys = {"x", "./x"}
  Clean <- OnePath
  Chunks = 2
  Backends = {"local", "s3"}
  Faults = {"disk", "body", "close", "network", "crash"}
INVARIANTS
  TypeOK
  LastWriteWins
  StorageInv
  TornExplained
