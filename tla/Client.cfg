SPECIFICATION PartsSpec
CONSTANTS
  Profile = {home, cabin}
  Default = home
  home = home
  cabin = cabin
  MaxCred = 2
  Askers = {1, 2}
  MaxKills = 2
  MaxWrites = 1
  Faults = {"crash", "write", "marker", "unlink", "locked"}
  Removals = TRUE
  Terminals = {t1, t2}
  Users = {1, 2}
  MaxSignIns = 3
  MaxCalls = 3
  Procs = {p1, p2}
  Apps = {a1, a2}
  MaxVersion = 2
  MaxStarts = 3
  MaxFaults = 1
INVARIANTS
  NothingLost
  ResumeSucceeds
  OnlyConfirmedGoes
  NoneLeftUntold
  SignInsAccountedFor
  LinkKeepsWorking
  NeverStuck
  RunsAsAnswered
  NothingBrokenUnnoticed
PROPERTIES
  StaysUninstalled
CHECK_DEADLOCK FALSE
