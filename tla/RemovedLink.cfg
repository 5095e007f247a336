SPECIFICATION Spec
CONSTANTS
  Terminals = {t1}
  Users = {1}
  MaxSignIns = 2
INVARIANT RemovedMeansSignedOut
CHECK_DEADLOCK FALSE
