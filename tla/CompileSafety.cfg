SPECIFICATION Spec
CONSTANTS
  Procs = {p1, p2}
  Final = final
  Nothing = nothing
  Contents = {"v1", "v2", "v3"}
  Wording <- MCWording
  Undeletable <- MCUndeletable
  Flaws = {"none", "edited", "lossy", "truncated", "broken"}
  Commands <- MCCommands
  MaxFaults = 2
INVARIANTS
  PromotedIsVerified
  RemoteHeldBack
  ExitTellsActivation
  
CHECK_DEADLOCK FALSE
