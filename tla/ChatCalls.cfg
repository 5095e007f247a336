CONSTANTS
  a1 = a1  a2 = a2  a3 = a3  ana = ana  c1 = c1  c2 = c2
  Plans = {a1, a2, a3}
  PhonePlans = {a1, a2}
  Users = {ana}
  UserOf <- Owners
  Calls = {c1, c2}
  MaxJobs = 2
  MaxChanges = 1
SPECIFICATION Spec
INVARIANTS OneOpenAsk NothingAfterRemoval SaysWhatIs
PROPERTY CallsEnd
CHECK_DEADLOCK FALSE
