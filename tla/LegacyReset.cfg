SPECIFICATION Spec
CONSTANTS
  t1 = t1
  t2 = t2
  Tokens <- MCTokens
  None = None
  MaxBoots = 4
  MaxCorruptions = 2
CHECK_DEADLOCK FALSE
INVARIANT
  ResetCutsLegacy
