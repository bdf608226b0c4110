SPECIFICATION Spec
CONSTANTS
  Sources <- MCSources
  Limits <- MCLimits
  ShortText = 2
  HeadingLimit = 3
  MergeLimit = 3
  BlankLine = 1
INVARIANTS
  EveryFactOnce
  
  WithinBudget
  InOneSection
