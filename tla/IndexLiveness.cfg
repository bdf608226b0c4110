SPECIFICATION FairSpec
CONSTANTS
  p1 = p1
  p2 = p2
  long = long
  short = short
  plain = plain
  poor = poor
  Nil = Nil
  Path <- MCPath
  Content <- MCContent
  MaxChunks = 2
  NChunks <- MCChunks
  Good <- MCGood
  Accepted <- MCAccepted
  RequireAccept = FALSE
  Faults = {"parse", "embed", "delete"}
  MaxEdits = 3
  MaxCrashes = 0
  MaxClears = 0
PROPERTIES
  Settles
  HashCatchesUp
CHECK_DEADLOCK FALSE
