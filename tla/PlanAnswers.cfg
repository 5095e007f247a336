CONSTANTS
  p1 = p1  p2 = p2  q1 = q1  q2 = q2
  Plans <- TwoPlans
  Procs <- TwoProcs
  Nobody = Nobody  NoPlan = NoPlan  NoCode = NoCode
  Asks = {"chat"}
  PlanTTL = 1
  MaxFiles = 2
  MaxMismatches = 3
  MaxNow = 0
  MaxHouse = 0
SPECIFICATION PartsSpec
INVARIANTS ThreeGuesses OneSendPerChange
PROPERTY SentAsConfirmed
SYMMETRY Symmetry
CHECK_DEADLOCK FALSE
