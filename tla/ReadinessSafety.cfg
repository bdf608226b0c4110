SPECIFICATION Spec
CONSTANTS
  Documents <- MCDocuments
INVARIANTS
  ScoreExplained
  CapsHold
  NoWarningHelps
