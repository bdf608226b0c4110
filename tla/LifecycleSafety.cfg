SPECIFICATION Spec
CONSTANTS
  s1 = s1
  s2 = s2
  s3 = s3
  Proc = {s1, s2}
  SlowOps = TRUE
  MaxRuns = 2
  Commands = {"install", "remove", "verify"}
  MaxKills = 1
SYMMETRY MCSymmetry
INVARIANTS
  ExclusionUnlessOvertaken
  InstallTellsTruth
  RestReceiptSound
PROPERTIES
  VerifiedSurvives
CHECK_DEADLOCK FALSE
