SPECIFICATION Spec
CONSTANTS
  Users = {ana, ben}
  Phones = {p1, p2}
  None = None
  Tabs = {t1, t2}
  MaxSaves = 5
  MaxFaults = 0
INVARIANT NoOldLink
CHECK_DEADLOCK FALSE
