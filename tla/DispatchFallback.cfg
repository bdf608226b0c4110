SPECIFICATION Spec
CONSTANTS
  MaxPages = 3
  ParallelAbove = 2
  MinUocPages = 2
  UocPercent = 60
  HybridPercent = 20
INVARIANT FallbackCompletes
CHECK_DEADLOCK FALSE
