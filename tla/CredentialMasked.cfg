SPECIFICATION Spec
CONSTANTS
  Profile = {home, cabin}
  Default = home
  home = home
  cabin = cabin
  MaxCred = 2
  Faults = {"crash"}
  Removals = TRUE
INVARIANTS
  NeverMasked
CHECK_DEADLOCK FALSE
