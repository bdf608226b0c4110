SPECIFICATION FairSpec
CONSTANTS
  Reduction <- MCReduction
  MaxChunk = 40
  OomKinds = {"oom"}
  Faults = {"load", "error", "raise", "crash", "hang", "write", "spawn", "read"}
  MaxPages = 7
  MaxShifts = 1
  InitialSizes = {1, 3, 5, 6, 13, 40}
  MaxRestarts = 6
  TimeLimits = {TRUE, FALSE}
INVARIANTS
  ChunksTile
  FitsMeansDelivered
  OomMeansOom
PROPERTIES
  ServiceKept
CHECK_DEADLOCK FALSE
