SPECIFICATION PartsSpec
CONSTANTS
  MaxRequests = 2
  MaxFaults = 2
  MaxProcs = 2
  Users = {ana, ben}
  Phones = {p1, p2}
  NoOne = NoOne
  Tabs = {page}
  MaxSaves = 3
  MaxUserFaults = 1
  MaxTaps = 2
INVARIANTS
  BridgeAsSwitched
  NoOldLink
  FirstAnswerSettles
PROPERTIES
  OwnEntryOnly
  BridgeComesBack
  CleanupEnds
  VoteEnds
CHECK_DEADLOCK FALSE
