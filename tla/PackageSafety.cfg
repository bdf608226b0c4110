SPECIFICATION PackageSpec
CONSTANTS
  NoTable = NoTable
  MaxInline = 20
  MaxFaults = 1
  Inputs <- MCInputs
  Profiles <- MCProfiles
INVARIANTS
  EverySelectedAccounted
  RowsReachable
  InReadingOrder
