SPECIFICATION Spec
CONSTANTS
  p1 = p1
  p2 = p2
  p3 = p3
  here = here
  there = there
  Procs = {p1, p2, p3}
  KeyOf <- MCKeyOf
  Capacity <- MCCapacity
  MaxSize = 4
  Footprint = 1
  Free = {0, 3, 5}
  MaxRestarts = 1
  MaxTrouble = 1
  Rivals = {p2, p3}
  MaxRivalRuns = 1
INVARIANTS
  ClaimsEarned
  SmallestFailureKept
PROPERTIES
  StartsBelowFailure
  Learns
