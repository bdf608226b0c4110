SPECIFICATION Spec
CONSTANTS
  p1 = p1
  p2 = p2
  long = long
  short = short
  plain = plain
  poor = poor
  Nil = Nil
  Path <- MCPath
  Content <- MCContent
  MaxChunks = 2
  NChunks <- MCChunks
  Good <- MCGood
  Accepted <- MCAccepted
  RequireAccept = TRUE
  Faults = {"read", "parse", "embed", "add"}
  MaxEdits = 3
  MaxCrashes = 1
  MaxClears = 1
SYMMETRY MCSymmetry
INVARIANTS
  ProcessingHasOwner
  QuietJobFaithful
  StoredIsAdmitted
  SingleVersion
CHECK_DEADLOCK FALSE
