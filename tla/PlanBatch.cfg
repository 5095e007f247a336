CONSTANTS
  p1 = p1  p2 = p2  p3 = p3  q1 = q1  q2 = q2
  Plans <- ThreePlans
  Procs <- TwoProcs
  Nobody = Nobody  NoPlan = NoPlan  NoCode = NoCode
  Asks = {"preview"}
  PlanTTL = 1
  MaxFiles = 2
  MaxMismatches = 1
  MaxNow = 1
  MaxHouse = 1
  Size = 4
  Deletes = {2, 4}
  Reads <- Uses
SPECIFICATION MCSpec
INVARIANT LedgerIsTrue
PROPERTIES
  EditsAreSeen
  NothingUsableIsPruned
  ImplementsOneShotPlan
SYMMETRY Symmetry
CHECK_DEADLOCK FALSE
