SPECIFICATION LedgerSpec
CONSTANTS
  Recorders = {p1, p2, p3}
  NoFile = nofile
  Torn = torn
  Part = part
  MaxEntries = 2
  CompactAt = 3
  MaxWrites = 5
  MaxStops = 2
SYMMETRY Symmetry
INVARIANTS
  NothingLostAlone
  NeverTwice
  BoundedAtRest
CHECK_DEADLOCK FALSE
