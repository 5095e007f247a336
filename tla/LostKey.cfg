SPECIFICATION Spec
CONSTANTS
  Askers = {1}
  MaxCred = 2
  MaxKills = 0
  MaxWrites = 1
INVARIANT PendingKeyCovers
CHECK_DEADLOCK FALSE
