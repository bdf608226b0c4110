SPECIFICATION Spec
CONSTANTS
  MaxPages = 4
  ParallelAbove = 2
  MinUocPages = 2
  UocPercent = 60
  HybridPercent = 20
INVARIANTS
  UnsafeDiscarded
  ManifestNamesEngine
  InPageOrder
  NoPageLost
PROPERTIES
  NoSilentDowngrade
CHECK_DEADLOCK FALSE
